---- MODULE Spec2Model ----
(***************************************************************************)
(* Incremental rendering scheduler of markstream-react:                    *)
(*   - NodeRenderer: batch promotion, live window, focus index             *)
(*   - katexWorkerClient / mermaidWorkerClient: off-thread render clients  *)
(*   - MermaidBlockNode: progressive render controller                     *)
(* Each component has its own specification over its own variables; the    *)
(* variables of the other components stay at their initial value.          *)
(***************************************************************************)
EXTENDS Integers, Sequences, FiniteSets, TLC

VARIABLES
    props,      \* NodeRenderer: the props of the latest render
    env,        \* NodeRenderer: which scheduling hooks the host offers
    nr,         \* NodeRenderer: hook state and refs of NodeRendererInner
    host,       \* NodeRenderer: callbacks outstanding on the host scheduler
    win,        \* live-range effect on its own: its inputs and the range it set
    kx,         \* katexWorkerClient: the module-level state of the formula client
    mm,         \* mermaidWorkerClient: the module-level state of the diagram client
    calls,      \* the promises the two clients have returned, by call
    block,      \* MermaidBlockNode: state, refs and render attempts of one block
    bp,         \* one renderKaTeXWithBackpressure call: its locals and position
    slots,      \* NodeRenderer: visibility flags, handles and content of the slots
    vp          \* viewportPriority: one registrar, its observer and its handles

nrVars == <<props, env, nr, host>>
clientVars == <<kx, mm, calls, block, bp>>

vars == <<props, env, nr, host, win, kx, mm, calls, block, bp, slots, vp>>

(***************************************************************************)
(* Bounds of the model.                                                    *)
(***************************************************************************)
MaxTotal == 3       \* NodeRenderer: parsedNodes.length ranges over 0..MaxTotal
MaxLoop == 1        \* NodeRenderer: extra increments one idle callback may apply
WinMaxTotal == 6    \* live range alone: parsedNodes.length and focusIndex
WinMaxBuffer == 3   \* live range alone: liveNodeBuffer ranges over 0..WinMaxBuffer
WinMaxLive == 5     \* live range alone: maxLiveNodes ranges over 1..WinMaxLive

MaxCalls == 2       \* worker clients: calls awaited at once by the callers of the two clients
MaxCap == 1         \* worker clients: the concurrency caps range over 1..MaxCap
MaxBatch == 20      \* the adaptive increment on its own: renderBatchSize ranges over 0..MaxBatch
MaxHandles == 3     \* viewportPriority: the handles register has returned
MaxLines == 3       \* partial render: the diagram code has 1..MaxLines lines
MaxToken == 3       \* MermaidBlockNode: renderTokenRef ranges over 0..MaxToken
MaxRetries == 1     \* renderKaTeXWithBackpressure: opts.maxRetries ranges over 0..MaxRetries
MaxOldest == 2      \* formula cache: the oldest entries rewritten, and the room left at first

BatchSizes == {1, 2}                   \* renderBatchSize, initialRenderBatchSize
LiveNodeLimits == {0, 1, 3}            \* maxLiveNodes; 0 turns virtualization off
LiveNodeBuffers == {0, 1}              \* liveNodeBuffer
Delays == {16, 32}                     \* renderBatchDelay (16 by default)

IndexKeys == {0, 1}                    \* 0 stands for indexKey === undefined
ElapsedClasses == {"slow", "mid", "fast"}
    \* elapsed > budget * 1.2, in between, elapsed < budget * 0.5
EnvKinds == {"idle", "raf", "timeout"}
    \* requestIdleCallback; else requestAnimationFrame (followed by a timer of
    \* renderBatchDelay > 0, 16 by default); else a plain setTimeout

(***************************************************************************)
(* Math helpers.                                                           *)
(***************************************************************************)
Min(a, b) == IF a < b THEN a ELSE b
Max(a, b) == IF a > b THEN a ELSE b
CeilHalf(n) == (n + 1) \div 2       \* Math.ceil(n / 2), n >= 0
FloorHalf(n) == n \div 2            \* Math.floor(n / 2), n >= 0

(***************************************************************************)
(* NodeRendererInner: values resolved from the props on every render.      *)
(***************************************************************************)
resolvedBatchSize(p) == Max(0, p.renderBatchSize)
resolvedInitialBatch(p) == Max(0, p.initialRenderBatchSize)
batchingEnabled(p) == p.batchRendering /\ resolvedBatchSize(p) > 0
virtualizationEnabled(p) == p.maxLiveNodes > 0
liveNodeBufferResolved(p) == Max(0, p.liveNodeBuffer)
maxLiveNodesResolved(p) == Max(1, p.maxLiveNodes)

\* desiredRenderedCount without the Math.max(renderedCount, target)
desiredRenderedCountNoMax(p, liveEnd, renderedCount) ==
    IF ~virtualizationEnabled(p) THEN p.total
    ELSE Min(p.total, Max(liveEnd + liveNodeBufferResolved(p), resolvedInitialBatch(p)))

\* useMemo desiredRenderedCount
desiredRenderedCount(p, liveEnd, renderedCount) ==
    IF ~virtualizationEnabled(p) THEN p.total
    ELSE LET overscanEnd == Max(liveEnd + liveNodeBufferResolved(p), resolvedInitialBatch(p))
             target == Min(p.total, overscanEnd)
         IN  Max(renderedCount, target)

\* the live-range effect trimming an oversized range at its start only
computeLiveRangeTrimStart(p, focusIndex) ==
    IF p.total = 0 THEN [start |-> 0, end |-> 0]
    ELSE LET focus == Max(0, Min(focusIndex, p.total - 1))
             start0 == Max(0, focus - liveNodeBufferResolved(p))
             end0 == Min(p.total, focus + liveNodeBufferResolved(p) + 1)
             size == end0 - start0
             maxLive == maxLiveNodesResolved(p)
         IN  IF size > maxLive
               THEN [start |-> start0 + CeilHalf(size - maxLive), end |-> end0]
             ELSE IF size < maxLive
               THEN [start |-> Max(0, start0 - CeilHalf(maxLive - size)),
                     end |-> Min(p.total, end0 + FloorHalf(maxLive - size))]
             ELSE [start |-> start0, end |-> end0]

\* body of the live-range effect: the range handed to setLiveRange
computeLiveRange(p, focusIndex) ==
    IF ~virtualizationEnabled(p) THEN [start |-> 0, end |-> p.total]
    ELSE IF p.total = 0 THEN [start |-> 0, end |-> 0]
    ELSE LET focus == Max(0, Min(focusIndex, p.total - 1))
             start0 == Max(0, focus - liveNodeBufferResolved(p))
             end0 == Min(p.total, focus + liveNodeBufferResolved(p) + 1)
             size == end0 - start0
             maxLive == maxLiveNodesResolved(p)
         IN  IF size > maxLive
               THEN [start |-> start0 + CeilHalf(size - maxLive),
                     end |-> end0 - FloorHalf(size - maxLive)]
             ELSE IF size < maxLive
               THEN [start |-> Max(0, start0 - CeilHalf(maxLive - size)),
                     end |-> Min(p.total, end0 + FloorHalf(maxLive - size))]
             ELSE [start |-> start0, end |-> end0]

\* useMemo visibleNodes: the index range of the slots that are mounted
visibleNodes(p, s) ==
    IF ~virtualizationEnabled(p) THEN 0 .. (p.total - 1)
    ELSE LET start == Max(0, Min(s.liveRange.start, p.total))
             end == Max(start, Min(s.liveRange.end, p.total))
         IN  start .. (end - 1)

\* sequencing: the value v is computed once and handed to F
Bind(v, F(_)) == CHOOSE r \in {F(x) : x \in {v}} : TRUE

\* cancelBatchTimers that leaves the idle callback with the host
cancelBatchTimersKeepsIdle(s) ==
    LET kinds == (IF s.batchRafRef THEN {"raf"} ELSE {})
                 \cup (IF s.batchTimeoutRef THEN {"timeout"} ELSE {})
    IN  [s EXCEPT !.batchRafRef = FALSE,
                  !.batchTimeoutRef = FALSE,
                  !.batchPendingRef = FALSE,
                  !.pendingIncrementRef = 0,
                  !.cancelled = @ \cup kinds,
                  !.request = {cb \in @ : cb.kind \notin kinds}]

\* cancelBatchTimers: clears the refs; the host callbacks they name are
\* cancelled (cancelAnimationFrame / clearTimeout / cancelIdleCallback)
cancelBatchTimers(s) ==
    LET kinds == (IF s.batchRafRef THEN {"raf"} ELSE {})
                 \cup (IF s.batchTimeoutRef THEN {"timeout"} ELSE {})
                 \cup (IF s.batchIdleRef THEN {"idle"} ELSE {})
    IN  [s EXCEPT !.batchRafRef = FALSE,
                  !.batchTimeoutRef = FALSE,
                  !.batchIdleRef = FALSE,
                  !.batchPendingRef = FALSE,
                  !.pendingIncrementRef = 0,
                  !.cancelled = @ \cup kinds,
                  !.request = {cb \in @ : cb.kind \notin kinds}]

\* adjustAdaptiveBatchSize that shrinks without the lower limit
adjustAdaptiveBatchSizeNoMin(p, adaptive, cls) ==
    IF ~batchingEnabled(p) THEN adaptive
    ELSE LET maxSize == Max(1, resolvedBatchSize(p))
         IN  IF cls = "slow" THEN (adaptive * 7) \div 10
             ELSE IF cls = "fast" /\ adaptive < maxSize
               THEN Min(maxSize, (adaptive * 12 + 9) \div 10)
             ELSE adaptive

\* adjustAdaptiveBatchSize, with the elapsed time given by its class
adjustAdaptiveBatchSize(p, adaptive, cls) ==
    IF ~batchingEnabled(p) THEN adaptive
    ELSE LET maxSize == Max(1, resolvedBatchSize(p))
             minSize == Max(1, maxSize \div 4)
         IN  IF cls = "slow" THEN Max(minSize, (adaptive * 7) \div 10)
             ELSE IF cls = "fast" /\ adaptive < maxSize
               THEN Min(maxSize, (adaptive * 12 + 9) \div 10)
             ELSE adaptive

\* scheduleBatch without the test of batchPendingRef
scheduleBatchAlways(p, e, s, increment) ==
    IF ~batchingEnabled(p) THEN s
    ELSE IF s.renderedCountRef >= s.desiredRenderedCountRef THEN s
    ELSE LET amount == Max(1, increment)
             pending == IF s.pendingIncrementRef # 0
                          THEN Max(s.pendingIncrementRef, amount) ELSE amount
             kind == IF e = "idle" THEN "idle"
                     ELSE IF e = "timeout" THEN "timeout" ELSE "raf"
         IN  [s EXCEPT !.pendingIncrementRef = pending,
                       !.batchPendingRef = TRUE,
                       !.batchIdleRef = IF kind = "idle" THEN TRUE ELSE @,
                       !.batchTimeoutRef = IF kind = "timeout" THEN TRUE ELSE @,
                       !.batchRafRef = IF kind = "raf" THEN TRUE ELSE @,
                       !.request = @ \cup {[kind |-> kind, amount |-> amount]}]

\* scheduleBatch(increment): the non-immediate path; the callback asked of
\* the host is recorded in s.request (kind and captured amount)
scheduleBatch(p, e, s, increment) ==
    IF ~batchingEnabled(p) THEN s
    ELSE IF s.renderedCountRef >= s.desiredRenderedCountRef THEN s
    ELSE LET amount == Max(1, increment)
             pending == IF s.pendingIncrementRef # 0
                          THEN Max(s.pendingIncrementRef, amount) ELSE amount
             kind == IF e = "idle" THEN "idle"
                     ELSE IF e = "timeout" THEN "timeout" ELSE "raf"
         IN  IF s.batchPendingRef THEN [s EXCEPT !.pendingIncrementRef = pending]
             ELSE [s EXCEPT !.pendingIncrementRef = pending,
                            !.batchPendingRef = TRUE,
                            !.batchIdleRef = IF kind = "idle" THEN TRUE ELSE @,
                            !.batchTimeoutRef = IF kind = "timeout" THEN TRUE ELSE @,
                            !.batchRafRef = IF kind = "raf" THEN TRUE ELSE @,
                            !.request = @ \cup {[kind |-> kind, amount |-> amount]}]

\* queueNextBatch of scheduleBatch
queueNextBatch(p, e, s) == scheduleBatch(p, e, s, Max(1, s.adaptiveBatchSizeRef))

\* applyIncrement(size): setRenderedCount with the updater, then the
\* adaptive adjustment.  React runs the updater at once when no update of
\* the component is queued (eager) and otherwise during the next render.
applyIncrement(p, s, size, cls, eager) ==
    LET adj == adjustAdaptiveBatchSize(p, s.adaptiveBatchSizeRef, cls)
        next == Min(s.desiredRenderedCountRef, s.renderedCount + Max(1, size))
    IN  IF eager /\ s.qRendered = <<>>
          THEN [s EXCEPT !.renderedCountRef = next,
                         !.qRendered = IF next = s.renderedCount THEN <<>>
                                       ELSE <<[op |-> "set", v |-> next]>>,
                         !.adaptiveBatchSizeRef = adj]
        ELSE [s EXCEPT !.qRendered = Append(@, [op |-> "add", v |-> size]),
                       !.adaptiveBatchSizeRef = adj]

\* the while loop of run(deadline): one increment per element of classes,
\* as long as the rendered count is below the target
RECURSIVE runLoop(_, _, _)
runLoop(p, s, classes) ==
    IF classes = <<>> \/ s.renderedCountRef >= s.desiredRenderedCountRef THEN s
    ELSE Bind(applyIncrement(p, s, Max(1, s.adaptiveBatchSizeRef), Head(classes), FALSE),
              LAMBDA s1 : runLoop(p, s1, Tail(classes)))

\* run(deadline?) of scheduleBatch
run(p, e, s, amount, hasDeadline, cls, eager, classes) ==
    Bind(applyIncrement(p,
                        [s EXCEPT !.batchRafRef = FALSE, !.batchTimeoutRef = FALSE,
                                  !.batchIdleRef = FALSE, !.batchPendingRef = FALSE,
                                  !.pendingIncrementRef = 0],
                        IF s.pendingIncrementRef # 0 THEN s.pendingIncrementRef ELSE amount,
                        cls, eager),
         LAMBDA s1 :
            IF s1.renderedCountRef >= s1.desiredRenderedCountRef THEN s1
            ELSE IF ~hasDeadline THEN queueNextBatch(p, e, s1)
            ELSE Bind(runLoop(p, s1, classes),
                      LAMBDA s2 : IF s2.renderedCountRef < s2.desiredRenderedCountRef
                                    THEN queueNextBatch(p, e, s2) ELSE s2))

\* setRenderedCount(value)
setRenderedCount(s, value) ==
    [s EXCEPT !.qRendered = Append(@, [op |-> "set", v |-> value])]

\* datasetChanged and batchConfigChanged of the dataset effect
datasetChangedBy(p, s) ==
    IF p.indexKey # 0 THEN p.indexKey # s.previousDatasetRef.key
    ELSE p.total # s.previousDatasetRef.total

\* props.renderBatchDelay ?? 16
currentDelay(p) == p.renderBatchDelay

\* batchConfigChangedBy without the comparison of the delay
batchConfigChangedIgnoresDelay(p, s) ==
    \/ s.previousBatchConfigRef.batchSize # resolvedBatchSize(p)
    \/ s.previousBatchConfigRef.initial # resolvedInitialBatch(p)
    \/ s.previousBatchConfigRef.enabled # batchingEnabled(p)

batchConfigChangedBy(p, s) ==
    s.previousBatchConfigRef # [batchSize |-> resolvedBatchSize(p),
                                initial |-> resolvedInitialBatch(p),
                                delay |-> currentDelay(p),
                                enabled |-> batchingEnabled(p)]

\* the dataset effect after its bookkeeping: the four ways it sets the count
datasetEffectBody(p, e, s, changed) ==
    LET total == p.total
        target == s.desiredRenderedCountRef
        initial == Min(target, resolvedInitialBatch(p))
        capped == Min(s.renderedCountRef, target)
    IN  IF total = 0
          THEN setRenderedCount([s EXCEPT !.renderedCountRef = 0], 0)
        ELSE IF ~batchingEnabled(p)
          THEN setRenderedCount([s EXCEPT !.renderedCountRef = target], target)
        ELSE IF changed
          THEN Bind(setRenderedCount([s EXCEPT !.renderedCountRef = initial], initial),
                    LAMBDA s1 : IF initial < target
                                  THEN scheduleBatch(p, e, s1, Max(1, resolvedInitialBatch(p)))
                                  ELSE s1)
        ELSE Bind(IF capped # s.renderedCountRef
                    THEN setRenderedCount([s EXCEPT !.renderedCountRef = capped,
                                                    !.capped = TRUE], capped)
                    ELSE s,
                  LAMBDA s1 : IF s1.renderedCountRef < target
                                THEN scheduleBatch(p, e, s1, Max(1, resolvedBatchSize(p)))
                                ELSE s1)

\* the effect on [batchingEnabled, parsedNodes.length, indexKey, batch sizes,
\* renderBatchDelay];
\* s.capped tells whether its latest run lowered the count to the target on
\* the path that keeps the dataset (capped !== renderedCountRef.current)
datasetEffect(p, e, s) ==
    LET changed == datasetChangedBy(p, s) \/ batchConfigChangedBy(p, s)
        refs == [s EXCEPT !.previousDatasetRef = [key |-> p.indexKey, total |-> p.total],
                          !.previousBatchConfigRef =
                              [batchSize |-> resolvedBatchSize(p),
                               initial |-> resolvedInitialBatch(p),
                               delay |-> currentDelay(p),
                               enabled |-> batchingEnabled(p)],
                          !.adaptiveBatchSizeRef =
                              IF changed THEN Max(1, resolvedBatchSize(p)) ELSE @,
                          !.capped = FALSE]
    IN  Bind(refs,
             LAMBDA s1 :
                Bind(IF changed \/ ~batchingEnabled(p) THEN cancelBatchTimers(s1) ELSE s1,
                     LAMBDA s2 : datasetEffectBody(p, e, s2, changed)))

\* the effect on [renderedCount, virtualizationEnabled]
focusFollowsEffect(p, s) ==
    [s EXCEPT !.qFocus = IF virtualizationEnabled(p) /\ s.renderedCount > s.prevRenderedRef
                           THEN Append(@, [op |-> "set", v |-> s.renderedCount - 1])
                           ELSE @,
              !.prevRenderedRef = s.renderedCount]

\* markNodeVisible(index, true): setFocusIndex(prev => index > prev ? index : prev)
markNodeVisible(p, s, index) ==
    IF virtualizationEnabled(p)
      THEN [s EXCEPT !.qFocus = Append(@, [op |-> "max", v |-> index])]
      ELSE s

\* React applies the queued updates of renderedCount in order; the updater
\* of applyIncrement also writes renderedCountRef
RECURSIVE applyRenderedQueue(_, _, _, _)
applyRenderedQueue(q, rc, ref, desired) ==
    IF q = <<>> THEN [rc |-> rc, ref |-> ref]
    ELSE IF Head(q).op = "set"
      THEN applyRenderedQueue(Tail(q), Head(q).v, ref, desired)
    ELSE Bind(Min(desired, rc + Max(1, Head(q).v)),
              LAMBDA next : applyRenderedQueue(Tail(q), next, next, desired))

RECURSIVE applyFocusQueue(_, _)
applyFocusQueue(q, focus) ==
    IF q = <<>> THEN focus
    ELSE IF Head(q).op = "set" THEN applyFocusQueue(Tail(q), Head(q).v)
    ELSE Bind(IF Head(q).v > focus THEN Head(q).v ELSE focus,
              LAMBDA next : applyFocusQueue(Tail(q), next))

\* the render function of NodeRendererInner: the queued updates are applied
\* and desiredRenderedCountRef is assigned
renderBody(p, s) ==
    Bind(applyRenderedQueue(s.qRendered, s.renderedCount, s.renderedCountRef,
                            s.desiredRenderedCountRef),
         LAMBDA r :
            LET live == IF s.qLive = <<>> THEN s.liveRange ELSE s.qLive[Len(s.qLive)]
            IN  [s EXCEPT !.renderedCount = r.rc,
                          !.renderedCountRef = r.ref,
                          !.focusIndex = applyFocusQueue(s.qFocus, s.focusIndex),
                          !.liveRange = live,
                          !.desiredRenderedCountRef = desiredRenderedCount(p, live.end, r.rc),
                          !.qRendered = <<>>, !.qFocus = <<>>, !.qLive = <<>>])

\* the effects of one render, in the order of their declaration; s is the
\* state before the render and s1 the state the render function left
renderEffects(pOld, p, e, s, s1, mount) ==
    LET renderedChanged == mount \/ s1.renderedCount # s.renderedCount
        virtChanged == virtualizationEnabled(pOld) # virtualizationEnabled(p)
        datasetDeps == \/ mount
                       \/ batchingEnabled(pOld) # batchingEnabled(p)
                       \/ pOld.total # p.total
                       \/ pOld.indexKey # p.indexKey
                       \/ resolvedBatchSize(pOld) # resolvedBatchSize(p)
                       \/ resolvedInitialBatch(pOld) # resolvedInitialBatch(p)
                       \/ pOld.renderBatchDelay # p.renderBatchDelay
        liveDeps == \/ mount
                    \/ s1.focusIndex # s.focusIndex
                    \/ liveNodeBufferResolved(pOld) # liveNodeBufferResolved(p)
                    \/ maxLiveNodesResolved(pOld) # maxLiveNodesResolved(p)
                    \/ pOld.total # p.total
                    \/ virtChanged
    IN  Bind(IF renderedChanged THEN [s1 EXCEPT !.renderedCountRef = s1.renderedCount]
                                ELSE s1,
             LAMBDA s2 :
                Bind(IF datasetDeps THEN datasetEffect(p, e, s2) ELSE s2,
                     LAMBDA s3 :
                        Bind(IF liveDeps
                               THEN [s3 EXCEPT !.qLive = <<computeLiveRange(p, s1.focusIndex)>>]
                               ELSE s3,
                             LAMBDA s4 : IF renderedChanged \/ virtChanged
                                           THEN focusFollowsEffect(p, s4) ELSE s4)))

\* one render of NodeRendererInner followed by its effects; pOld are the
\* props of the previous render
renderPass(pOld, p, e, s, mount) ==
    Bind(renderBody(p, s), LAMBDA s1 : renderEffects(pOld, p, e, s, s1, mount))

\* React re-renders until no state update is queued
RECURSIVE settle(_, _, _)
settle(p, e, s) ==
    IF s.qRendered = <<>> /\ s.qFocus = <<>> /\ s.qLive = <<>> THEN s
    ELSE Bind(renderPass(p, p, e, s, FALSE), LAMBDA s1 : settle(p, e, s1))

\* initialRenderedCount that starts with every node
initialRenderedCountAll(p) == p.total

\* the initialiser of useState for renderedCount
initialRenderedCount(p) ==
    IF ~batchingEnabled(p) THEN p.total
    ELSE Min(p.total, resolvedInitialBatch(p))

\* the first render (useState / useRef initial values)
firstRender(p) ==
    LET rc == initialRenderedCount(p)
    IN  [renderedCount |-> rc,
         renderedCountRef |-> rc,
         focusIndex |-> 0,
         liveRange |-> [start |-> 0, end |-> p.total],
         desiredRenderedCountRef |-> desiredRenderedCount(p, p.total, rc),
         prevRenderedRef |-> rc,
         batchPendingRef |-> FALSE,
         pendingIncrementRef |-> 0,
         batchIdleRef |-> FALSE,
         batchRafRef |-> FALSE,
         batchTimeoutRef |-> FALSE,
         adaptiveBatchSizeRef |-> Max(1, resolvedBatchSize(p)),
         previousDatasetRef |-> [key |-> p.indexKey, total |-> p.total],
         previousBatchConfigRef |-> [batchSize |-> resolvedBatchSize(p),
                                     initial |-> resolvedInitialBatch(p),
                                     delay |-> currentDelay(p),
                                     enabled |-> batchingEnabled(p)],
         capped |-> FALSE,
         qRendered |-> <<>>, qFocus |-> <<>>, qLive |-> <<>>,
         request |-> {}, cancelled |-> {}]

\* the first render, its effects, and the renders they cause
mount(p, e) ==
    Bind(firstRender(p),
         LAMBDA s0 : Bind(renderPass(p, p, e, s0, TRUE), LAMBDA s1 : settle(p, e, s1)))

\* what an operation leaves behind: the component state, and the host
\* scheduler without the cancelled callbacks and with the requested ones
committed(s) == [s EXCEPT !.request = {}, !.cancelled = {}]
hostAfter(h, s) == {cb \in h : cb.kind \notin s.cancelled} \cup s.request

PropsSet ==
    [total : 0 .. MaxTotal,
     indexKey : IndexKeys,
     batchRendering : BOOLEAN,
     renderBatchSize : BatchSizes,
     initialRenderBatchSize : BatchSizes,
     renderBatchDelay : Delays,
     maxLiveNodes : LiveNodeLimits,
     liveNodeBuffer : LiveNodeBuffers]

(***************************************************************************)
(* The slots of NodeRenderer.  slots is <<>> where the slots are not       *)
(* followed; else                                                          *)
(*   slots.deferNodes  props.deferNodesUntilVisible !== false &&           *)
(*                     props.viewportPriority !== false                    *)
(*   slots.flags       the indices i with nodeVisibilityStateRef[i] true   *)
(*   slots.handles     the keys of nodeVisibilityHandlesRef                *)
(*   slots.observed    the handles whose element the registrar observes    *)
(*   slots.content     the slots the latest render gave node-content       *)
(*   slots.read        nodeVisibilityStateRef as the latest render read it *)
(*   slots.heights     nodeHeightsRef: the height recorded for an index    *)
(***************************************************************************)
SlotsFollowed(sl) == DOMAIN sl # {}

renderLimit(p, s) == Min(s.renderedCount, p.total)
shouldObserveSlots(p, sl) == sl.deferNodes \/ virtualizationEnabled(p)

\* shouldRenderNode without the test of renderLimit
shouldRenderNodeNoLimit(p, s, sl, index) ==
    IF ~sl.deferNodes THEN TRUE
    ELSE IF index < resolvedInitialBatch(p) THEN TRUE
    ELSE index \in sl.flags

shouldRenderNode(p, s, sl, index) ==
    IF index >= renderLimit(p, s) THEN FALSE
    ELSE IF ~sl.deferNodes THEN TRUE
    ELSE IF index < resolvedInitialBatch(p) THEN TRUE
    ELSE index \in sl.flags

\* el.offsetHeight of the node-content element of a slot: the layout gives
\* every node a height of its own, none of them 0
offsetHeight(index) == 20 + index

\* setNodeContentRef(index, null) for the indices gone: the commit detaches
\* the ref of every node-content element of the previous render, unmounted
\* or not (the ref is a new function in every render), and the height of
\* the index is deleted
forgetHeights(heights, gone) ==
    [i \in DOMAIN heights \ gone |-> heights[i]]

\* setNodeContentRef(index, el) for the elements attached, once the measure
\* it queues as a microtask has run
measureHeights(heights, attached) ==
    [i \in DOMAIN heights \cup attached |->
        IF i \in attached THEN offsetHeight(i) ELSE heights[i]]

\* the term of estimateHeightRange for one index, map.get(i) ?? averageNodeHeight:
\* the height recorded, or else the running average
estimatedHeight(heights, i) ==
    IF i \in DOMAIN heights THEN [measured |-> TRUE, height |-> heights[i]]
    ELSE [measured |-> FALSE, height |-> 0]

\* the commit detaches the ref of every slot of the previous render (the ref
\* is a new function in every render): setNodeSlotElement(index, null)
detachSlots(was, sl) ==
    [sl EXCEPT !.handles = @ \ was,
               !.observed = @ \ was,
               !.flags = IF sl.deferNodes THEN @ \ was ELSE @]

\* and attaches the ref of every slot rendered: setNodeSlotElement(index, el)
attachSlots(p, shown, sl) ==
    IF ~shouldObserveSlots(p, sl) THEN sl
    ELSE LET eager == IF virtualizationEnabled(p) THEN {}
                      ELSE {i \in shown : i < resolvedInitialBatch(p)}
         IN  [sl EXCEPT !.flags = IF sl.deferNodes THEN @ \cup eager ELSE @,
                        !.handles = @ \cup (shown \ eager),
                        !.observed = @ \cup (shown \ eager)]

\* useEffect(() => cleanupAfterTruncate(renderLimit), [renderLimit])
cleanupAfterTruncate(limit, sl) ==
    LET cut == {i \in sl.handles : i >= limit}
    IN  [sl EXCEPT !.handles = @ \ cut, !.observed = @ \ cut, !.flags = @ \ cut]

\* the effect on [parsedNodes.length]: flags at and beyond the total go
trimToTotal(p, sl) ==
    [sl EXCEPT !.flags = {i \in @ : i < p.total},
               !.heights = forgetHeights(@, {i \in DOMAIN @ : i >= p.total})]

\* one render and its commit, as the slots see it: s is the state before the
\* render (of the previous commit, with the updates queued)
slotsPass(pOld, p, s, sl, first) ==
    Bind(renderBody(p, s),
         LAMBDA s1 :
            LET shown == visibleNodes(p, s1)
                was == IF first THEN {} ELSE visibleNodes(pOld, s)
                content == {i \in shown : shouldRenderNode(p, s1, sl, i)}
                limitChanged == first \/ renderLimit(p, s1) # renderLimit(pOld, s)
                totalChanged == first \/ p.total # pOld.total
            IN  Bind([detachSlots(was, sl) EXCEPT
                         !.content = content, !.read = sl.flags,
                         !.heights = forgetHeights(@, sl.content)],
                     LAMBDA sl1 :
                        Bind(attachSlots(p, shown, sl1),
                             LAMBDA sl2 :
                                Bind(IF limitChanged
                                       THEN cleanupAfterTruncate(renderLimit(p, s1), sl2)
                                       ELSE sl2,
                                     LAMBDA sl3 :
                                        Bind(IF totalChanged THEN trimToTotal(p, sl3)
                                                             ELSE sl3,
                                             LAMBDA sl4 :
                                                [sl4 EXCEPT !.heights =
                                                    measureHeights(@, content)])))))

\* the slots over the renders of settle
RECURSIVE settleSlots(_, _, _, _)
settleSlots(p, e, s, sl) ==
    IF s.qRendered = <<>> /\ s.qFocus = <<>> /\ s.qLive = <<>> THEN sl
    ELSE Bind(slotsPass(p, p, s, sl, FALSE),
              LAMBDA sl1 : settleSlots(p, e, renderPass(p, p, e, s, FALSE), sl1))

\* the slots after the parent rendered NodeRenderer with the props p
slotsRerendered(pOld, p, e, s, sl) ==
    IF ~SlotsFollowed(sl) THEN sl
    ELSE Bind(slotsPass(pOld, p, s, sl, FALSE),
              LAMBDA sl1 : settleSlots(p, e, renderPass(pOld, p, e, s, FALSE), sl1))

\* the slots after the state updates queued in s were rendered
slotsSettled(p, e, s, sl) ==
    IF ~SlotsFollowed(sl) THEN sl ELSE settleSlots(p, e, s, sl)

\* handleEntries for the slot index, then markNodeVisible(index, true) as
\* far as it writes nodeVisibilityStateRef
slotReported(sl, index) ==
    IF ~SlotsFollowed(sl) THEN sl
    ELSE [sl EXCEPT !.observed = @ \ {index},
                    !.flags = IF sl.deferNodes THEN @ \cup {index} ELSE @]

\* the slots after mount
slotsMounted(p, e, deferNodes) ==
    Bind([deferNodes |-> deferNodes, flags |-> {}, handles |-> {}, observed |-> {},
          content |-> {}, read |-> {}, heights |-> <<>>],
         LAMBDA sl0 :
            Bind(slotsPass(p, p, firstRender(p), sl0, TRUE),
                 LAMBDA sl1 : settleSlots(p, e, renderPass(p, p, e, firstRender(p), TRUE), sl1)))

NodeRendererInit ==
    /\ props \in PropsSet
    /\ env \in EnvKinds
    /\ \E s \in {mount(props, env)} :
            /\ nr = committed(s)
            /\ host = hostAfter({}, s)
    /\ win = <<>> /\ slots = <<>> /\ vp = <<>>
    /\ kx = <<>> /\ mm = <<>> /\ calls = <<>> /\ block = <<>> /\ bp = <<>>

\* the parent renders NodeRenderer with other props
Rerender(p2) ==
    \E s1 \in {renderPass(props, p2, env, nr, FALSE)} :
        \E s \in {settle(p2, env, s1)} :
            /\ props' = p2
            /\ nr' = committed(s)
            /\ host' = hostAfter(host, s)
            /\ slots' = slotsRerendered(props, p2, env, nr, slots)
            /\ UNCHANGED <<env, win, clientVars, vp>>

\* the node sequence is replaced (other length), or the indexKey changes
SetNodes ==
    \/ \E n \in (0 .. MaxTotal) \ {props.total} :
           Rerender([props EXCEPT !.total = n])
    \/ \E k \in IndexKeys \ {props.indexKey} :
           Rerender([props EXCEPT !.indexKey = k])

SetBatchConfig ==
    \/ Rerender([props EXCEPT !.batchRendering = ~@])
    \/ \E size \in BatchSizes \ {props.renderBatchSize} :
           Rerender([props EXCEPT !.renderBatchSize = size])
    \/ \E initial \in BatchSizes \ {props.initialRenderBatchSize} :
           Rerender([props EXCEPT !.initialRenderBatchSize = initial])
    \/ \E delay \in Delays \ {props.renderBatchDelay} :
           Rerender([props EXCEPT !.renderBatchDelay = delay])

SetVirtualization ==
    \/ \E m \in LiveNodeLimits \ {props.maxLiveNodes} :
           Rerender([props EXCEPT !.maxLiveNodes = m])
    \/ \E b \in LiveNodeBuffers \ {props.liveNodeBuffer} :
           Rerender([props EXCEPT !.liveNodeBuffer = b])

\* the visibility handle of a mounted slot reports the slot visible
SlotVisibleAt(index) ==
    \E s1 \in {markNodeVisible(props, nr, index)} :
        \E s \in {settle(props, env, s1)} :
            /\ nr' = committed(s)
            /\ host' = hostAfter(host, s)
            /\ slots' = slotsSettled(props, env, s1, slotReported(slots, index))
            /\ UNCHANGED <<props, env, win, clientVars, vp>>

SlotVisible == \E index \in visibleNodes(props, nr) : SlotVisibleAt(index)

\* a callback of scheduleBatch runs: run(deadline) or run()
RunBatch(cb, hasDeadline, cls, eager, classes) ==
    \E s1 \in {run(props, env, nr, cb.amount, hasDeadline, cls, eager, classes)} :
        \E s \in {settle(props, env, s1)} :
            /\ nr' = committed(s)
            /\ host' = hostAfter(host \ {cb}, s)
            /\ slots' = slotsSettled(props, env, s1, slots)
            /\ UNCHANGED <<props, env, win, clientVars, vp>>

LoopClasses == UNION {[1 .. n -> ElapsedClasses] : n \in 0 .. MaxLoop}

IdleCallback ==
    \E cb \in host, cls \in ElapsedClasses, eager \in BOOLEAN, classes \in LoopClasses :
        /\ cb.kind = "idle"
        /\ RunBatch(cb, TRUE, cls, eager, classes)

TimeoutCallback ==
    \E cb \in host, cls \in ElapsedClasses, eager \in BOOLEAN :
        /\ cb.kind = "timeout"
        /\ RunBatch(cb, FALSE, cls, eager, <<>>)

\* the animation frame (delay > 0): setTimeout(() => run(), delay)
AnimationFrame ==
    \E cb \in host :
        /\ cb.kind = "raf"
        /\ nr' = [nr EXCEPT !.batchTimeoutRef = TRUE]
        /\ host' = (host \ {cb}) \cup {[kind |-> "timeout", amount |-> cb.amount]}
        /\ UNCHANGED <<props, env, win, clientVars, slots, vp>>

NodeRendererNext ==
    \/ SetNodes
    \/ SetBatchConfig
    \/ SetVirtualization
    \/ SlotVisible
    \/ IdleCallback
    \/ TimeoutCallback
    \/ AnimationFrame

SpecNodeRenderer == NodeRendererInit /\ [][NodeRendererNext]_vars

\* the adaptive increment on its own: props holds the batch configuration
\* and nr the ref; it is adjusted after promotion steps and reset by the
\* dataset effect when the batch configuration changed
AdaptiveConfigs == [renderBatchSize : 0 .. MaxBatch, batchRendering : BOOLEAN]

\* adaptiveBatchSizeRef.current = Math.max(1, resolvedBatchSize || 1)
adaptiveReset(p) == Max(1, resolvedBatchSize(p))

AdaptiveInit ==
    /\ props \in AdaptiveConfigs
    /\ nr = [adaptiveBatchSizeRef |-> adaptiveReset(props)]
    /\ env = <<>> /\ host = {} /\ win = <<>> /\ slots = <<>> /\ vp = <<>>
    /\ kx = <<>> /\ mm = <<>> /\ calls = <<>> /\ block = <<>> /\ bp = <<>>

\* a promotion step measured its cost
Adjust(cls) ==
    /\ nr' = [adaptiveBatchSizeRef |->
                 adjustAdaptiveBatchSize(props, nr.adaptiveBatchSizeRef, cls)]
    /\ UNCHANGED <<props, env, host, win, clientVars, slots, vp>>

\* the batch configuration changes and the dataset effect resets the ref
ResetAdaptive ==
    \E p \in AdaptiveConfigs \ {props} :
        /\ props' = p
        /\ nr' = [adaptiveBatchSizeRef |-> adaptiveReset(p)]
        /\ UNCHANGED <<env, host, win, clientVars, slots, vp>>

AdaptiveNext ==
    \/ \E cls \in ElapsedClasses : Adjust(cls)
    \/ ResetAdaptive

SpecAdaptive == AdaptiveInit /\ [][AdaptiveNext]_vars

\* the renderer with its slots: the scheduling hook is setTimeout and the
\* delay and the key keep their defaults
SlotsInit ==
    /\ props \in {p \in PropsSet : p.renderBatchDelay = 16 /\ p.indexKey = 0}
    /\ env = "timeout"
    /\ \E s \in {mount(props, env)} :
            /\ nr = committed(s)
            /\ host = hostAfter({}, s)
    /\ \E deferNodes \in BOOLEAN : slots = slotsMounted(props, env, deferNodes)
    /\ win = <<>> /\ vp = <<>>
    /\ kx = <<>> /\ mm = <<>> /\ calls = <<>> /\ block = <<>> /\ bp = <<>>

\* the parent renders NodeRenderer again with the same props
RenderAgain == Rerender(props)

\* the observer reports a slot it observes
SlotReport == \E index \in slots.observed : SlotVisibleAt(index)

\* the node sequence grows or shrinks
SetTotal == \E n \in (0 .. MaxTotal) \ {props.total} : Rerender([props EXCEPT !.total = n])

SlotsNext ==
    \/ SetTotal
    \/ RenderAgain
    \/ SlotReport
    \/ SetVirtualization
    \/ TimeoutCallback

SpecSlots == SlotsInit /\ [][SlotsNext]_vars

\* NodeRenderer that React has not mounted, or has unmounted
Unmounted == <<>>
Mounted == DOMAIN nr # {}

MountInit ==
    /\ props \in PropsSet
    /\ env \in EnvKinds
    /\ nr = Unmounted
    /\ host = {}
    /\ win = <<>> /\ slots = <<>> /\ vp = <<>>
    /\ kx = <<>> /\ mm = <<>> /\ calls = <<>> /\ block = <<>> /\ bp = <<>>

\* React mounts NodeRenderer: the first render, its effects and the renders
\* they queue
Mount ==
    /\ ~Mounted
    /\ \E s \in {mount(props, env)} :
            /\ nr' = committed(s)
            /\ host' = hostAfter({}, s)
    /\ UNCHANGED <<props, env, win, clientVars, slots, vp>>

\* React unmounts NodeRenderer: the cleanup cancels the batch timers
Unmount ==
    /\ Mounted
    /\ nr' = Unmounted
    /\ host' = hostAfter(host, cancelBatchTimers(nr))
    /\ UNCHANGED <<props, env, win, clientVars, slots, vp>>

MountNext == Mount \/ Unmount

SpecMount == MountInit /\ [][MountNext]_vars

\* NodeRenderer from its mount to its unmount, with the callbacks of the host
\* scheduler
TimersNext ==
    \/ Mounted /\ NodeRendererNext
    \/ Mount
    \/ Unmount

SpecTimers == NodeRendererInit /\ [][TimersNext]_vars

\* the renderer with a fixed document and fixed settings: only the host
\* callbacks and the visibility reports act, and every callback the host
\* holds eventually runs
PromotionNext ==
    \/ SlotVisible
    \/ IdleCallback
    \/ TimeoutCallback
    \/ AnimationFrame

SpecPromotion ==
    /\ NodeRendererInit
    /\ [][PromotionNext]_vars
    /\ WF_vars(IdleCallback)
    /\ WF_vars(TimeoutCallback)
    /\ WF_vars(AnimationFrame)

(***************************************************************************)
(* The live-range effect on its own, over wider ranges of its inputs:      *)
(* every change of focusIndex, parsedNodes.length, liveNodeBuffer or       *)
(* maxLiveNodes re-runs the effect, which sets liveRange.                  *)
(***************************************************************************)
WinInputs ==
    [total : 0 .. WinMaxTotal,
     focusIndex : 0 .. WinMaxTotal,
     liveNodeBuffer : 0 .. WinMaxBuffer,
     maxLiveNodes : 1 .. WinMaxLive]

liveRangeEffect(w) ==
    [total |-> w.total, focusIndex |-> w.focusIndex,
     liveNodeBuffer |-> w.liveNodeBuffer, maxLiveNodes |-> w.maxLiveNodes,
     liveRange |-> computeLiveRange(w, w.focusIndex)]

\* mount: useState(0) for focusIndex, then the effect
LiveWindowInit ==
    /\ \E w \in WinInputs : w.focusIndex = 0 /\ win = liveRangeEffect(w)
    /\ props = <<>> /\ env = <<>> /\ nr = <<>> /\ host = {}
    /\ kx = <<>> /\ mm = <<>> /\ calls = <<>> /\ block = <<>> /\ bp = <<>>
    /\ slots = <<>> /\ vp = <<>>

WinSetFocus ==
    \E f \in (0 .. WinMaxTotal) \ {win.focusIndex} :
        /\ win' = liveRangeEffect([win EXCEPT !.focusIndex = f])
        /\ UNCHANGED <<nrVars, clientVars, slots, vp>>

WinSetTotal ==
    \E n \in (0 .. WinMaxTotal) \ {win.total} :
        /\ win' = liveRangeEffect([win EXCEPT !.total = n])
        /\ UNCHANGED <<nrVars, clientVars, slots, vp>>

WinSetBuffer ==
    \E b \in (0 .. WinMaxBuffer) \ {win.liveNodeBuffer} :
        /\ win' = liveRangeEffect([win EXCEPT !.liveNodeBuffer = b])
        /\ UNCHANGED <<nrVars, clientVars, slots, vp>>

WinSetMaxLive ==
    \E m \in (1 .. WinMaxLive) \ {win.maxLiveNodes} :
        /\ win' = liveRangeEffect([win EXCEPT !.maxLiveNodes = m])
        /\ UNCHANGED <<nrVars, clientVars, slots, vp>>

LiveWindowNext ==
    \/ WinSetFocus
    \/ WinSetTotal
    \/ WinSetBuffer
    \/ WinSetMaxLive

SpecLiveWindow == LiveWindowInit /\ [][LiveWindowNext]_vars

(***************************************************************************)
(* katexWorkerClient.                                                      *)
(*   kx.worker           the bound Worker (0: null)                        *)
(*   kx.handlers         the workers whose onmessage/onerror were set      *)
(*   kx.terminated       the workers that were terminated                  *)
(*   kx.pending          the ids in the pending map                        *)
(*   kx.timers           the ids whose request timer is armed              *)
(*   kx.listeners        the ids whose abort listener is attached          *)
(*   kx.cache            the cache Map, in insertion order                 *)
(*   kx.drainWaiters     the waiters in drainWaiters                       *)
(*   kx.inbox            requests posted to a worker and not yet answered  *)
(***************************************************************************)
CallIds == 1 .. MaxCalls
Workers == {1, 2}
Formulas ==                      \* the (content, displayMode) pairs submitted
    {[content |-> "a", displayMode |-> TRUE],
     [content |-> "", displayMode |-> FALSE]}
WaiterIds == {1}
CACHE_MAX == 200
MAX_CONCURRENCY == 5             \* formula client: the cap before any change
MAX_CONCURRENCY_DEFAULT == 5     \* diagram client: the cap before any change

Undefined == <<>>                \* Map.get of a missing key
EmptyHtml == <<"">>              \* the empty string as html
cacheKeyOf(content, displayMode) == <<IF displayMode THEN "d" ELSE "i", content>>
renderToString(content, displayMode) == <<"html", IF displayMode THEN "d" ELSE "i", content>>
truthy(v) == v # Undefined /\ v # EmptyHtml

\* the value a promise settles with
Settled(code, html, inFlight, max) ==
    [code |-> code, html |-> html, inFlight |-> inFlight, max |-> max]
NoValue == Settled("", Undefined, 0, 0)

NoCall ==
    [client |-> "none", content |-> "", displayMode |-> FALSE, signal |-> FALSE,
     status |-> "none", value |-> NoValue, dispatched |-> FALSE]

\* resolve / reject of a promise: the first settlement wins
resolveCall(c, i, html) ==
    IF c[i].status = "pending"
      THEN [c EXCEPT ![i].status = "resolved", ![i].value = Settled("ok", html, 0, 0)]
      ELSE c
rejectCall(c, i, code) ==
    IF c[i].status = "pending"
      THEN [c EXCEPT ![i].status = "rejected", ![i].value = Settled(code, Undefined, 0, 0)]
      ELSE c
RECURSIVE rejectAll(_, _, _)
rejectAll(c, ids, code) ==
    IF ids = {} THEN c
    ELSE LET i == CHOOSE x \in ids : TRUE
         IN  rejectAll(rejectCall(c, i, code), ids \ {i}, code)

\* Map.get / Map.set on the cache, and the eviction of the first key
cacheIndex(cache, key) ==
    LET at == {n \in 1 .. Len(cache) : cache[n].key = key}
    IN  IF at = {} THEN 0 ELSE CHOOSE n \in at : TRUE
cacheGet(cache, key) ==
    IF cacheIndex(cache, key) = 0 THEN Undefined ELSE cache[cacheIndex(cache, key)].html
cacheSetEvictsAlways(cache, key, html) ==
    LET at == cacheIndex(cache, key)
        set == IF at = 0 THEN Append(cache, [key |-> key, html |-> html])
               ELSE [cache EXCEPT ![at].html = html]
    IN  IF Len(set) >= CACHE_MAX THEN Tail(set) ELSE set
cacheSet(cache, key, html) ==
    LET at == cacheIndex(cache, key)
        set == IF at = 0 THEN Append(cache, [key |-> key, html |-> html])
               ELSE [cache EXCEPT ![at].html = html]
    IN  IF Len(set) > CACHE_MAX THEN Tail(set) ELSE set

\* notifyDrainIfBelowCap: every waiter's onDrain runs (it clears the waiter's
\* timer and abort listener and resolves it)
notifyDrainIfBelowCap(k) ==
    IF Cardinality(k.pending) < k.MAX_CONCURRENCY /\ k.drainWaiters # {}
      THEN [k EXCEPT !.drainWaiters = {},
                     !.waitTimers = @ \ k.drainWaiters,
                     !.waitListeners = @ \ k.drainWaiters,
                     !.waitStatus = [w \in WaiterIds |->
                                        IF w \in k.drainWaiters THEN "resolved" ELSE @[w]]]
      ELSE k

KxInitial ==
    [worker |-> 0, handlers |-> {}, terminated |-> {}, workerInitError |-> FALSE,
     MAX_CONCURRENCY |-> MAX_CONCURRENCY,
     pending |-> {}, timers |-> {}, listeners |-> {},
     cache |-> <<>>, inbox |-> {},
     drainWaiters |-> {}, waitTimers |-> {}, waitListeners |-> {},
     waitStatus |-> [w \in WaiterIds |-> "none"]]


\* renderKaTeXInWorker(content, displayMode, timeout, signal) as call i;
\* aborted: the signal passed has fired already; throws: postMessage throws
renderKaTeXInWorker(k, c, i, content, displayMode, signal, aborted, throws) ==
    LET call == [client |-> "katex", content |-> content, displayMode |-> displayMode,
                 signal |-> signal,
                 status |-> "pending", value |-> NoValue, dispatched |-> FALSE]
        cached == cacheGet(k.cache, cacheKeyOf(content, displayMode))
        resolved(html) ==
            [c EXCEPT ![i] = [call EXCEPT !.status = "resolved",
                                          !.value = Settled("ok", html, 0, 0)]]
        rejected(code, inFlight, max) ==
            [c EXCEPT ![i] = [call EXCEPT !.status = "rejected",
                                          !.value = Settled(code, Undefined, inFlight, max)]]
    IN  IF k.workerInitError
          THEN [kx |-> k, calls |-> rejected("WORKER_INIT_ERROR", 0, 0)]
        ELSE IF truthy(cached)
          THEN [kx |-> k, calls |-> resolved(cached)]
        ELSE IF k.worker = 0
          THEN [kx |-> [k EXCEPT !.workerInitError = TRUE],
                calls |-> rejected("WORKER_INIT_ERROR", 0, 0)]
        ELSE IF Cardinality(k.pending) >= k.MAX_CONCURRENCY
          THEN [kx |-> k,
                calls |-> rejected("WORKER_BUSY", Cardinality(k.pending), k.MAX_CONCURRENCY)]
        ELSE IF signal /\ aborted
          THEN [kx |-> k, calls |-> rejected("AbortError", 0, 0)]
        ELSE IF throws
          THEN [kx |-> notifyDrainIfBelowCap(k), calls |-> rejected("PostError", 0, 0)]
        ELSE [kx |-> [k EXCEPT !.pending = @ \cup {i},
                               !.timers = @ \cup {i},
                               !.listeners = IF signal THEN @ \cup {i} ELSE @,
                               !.inbox = @ \cup {[id |-> i, worker |-> k.worker]}],
              calls |-> [c EXCEPT ![i] = [call EXCEPT !.dispatched = TRUE]]]

\* worker.onmessage without the lookup of the pending entry (if (!p) return)
katexOnMessageNoLookup(k, c, id, error) ==
    LET k1 == notifyDrainIfBelowCap([k EXCEPT !.pending = @ \ {id},
                                              !.timers = @ \ {id}])
        html == renderToString(c[id].content, c[id].displayMode)
    IN  IF error
          THEN [kx |-> [k1 EXCEPT !.listeners = @ \ {id}],
                calls |-> rejectCall(c, id, "RenderError")]
        ELSE [kx |-> [k1 EXCEPT !.listeners = @ \ {id},
                                !.cache = cacheSet(@, cacheKeyOf(c[id].content,
                                                                 c[id].displayMode), html)],
              calls |-> resolveCall(c, id, html)]

\* worker.onmessage of setKaTeXWorker for the answer to request msg.id; the
\* worker echoes content and displayMode and sends html or error
katexOnMessage(k, c, id, error) ==
    IF id \notin k.pending THEN [kx |-> k, calls |-> c]
    ELSE LET k1 == notifyDrainIfBelowCap([k EXCEPT !.pending = @ \ {id},
                                                   !.timers = @ \ {id}])
             html == renderToString(c[id].content, c[id].displayMode)
         IN  IF error
               THEN [kx |-> [k1 EXCEPT !.listeners = @ \ {id}],
                     calls |-> rejectCall(c, id, "RenderError")]
             ELSE [kx |-> [k1 EXCEPT
                              !.listeners = @ \ {id},
                              !.cache = IF c[id].content # ""
                                          THEN cacheSet(@, cacheKeyOf(c[id].content,
                                                                      c[id].displayMode), html)
                                          ELSE @],
                   calls |-> resolveCall(c, id, html)]

\* worker.onerror of setKaTeXWorker
katexOnError(k, c) ==
    [kx |-> notifyDrainIfBelowCap([k EXCEPT !.pending = {},
                                            !.timers = @ \ k.pending,
                                            !.listeners = @ \ k.pending]),
     calls |-> rejectAll(c, k.pending, "WorkerError")]

\* the timeout callback without pending.delete(id)
katexTimeoutKeepsPending(k, c, i) ==
    [kx |-> notifyDrainIfBelowCap([k EXCEPT !.timers = @ \ {i}]),
     calls |-> rejectCall(c, i, "WORKER_TIMEOUT")]

\* the timeout callback without notifyDrainIfBelowCap()
katexTimeoutNoNotify(k, c, i) ==
    [kx |-> [k EXCEPT !.pending = @ \ {i}, !.timers = @ \ {i}],
     calls |-> rejectCall(c, i, "WORKER_TIMEOUT")]

\* the request timer of call i fires
katexTimeout(k, c, i) ==
    [kx |-> notifyDrainIfBelowCap([k EXCEPT !.pending = @ \ {i}, !.timers = @ \ {i}]),
     calls |-> rejectCall(c, i, "WORKER_TIMEOUT")]

\* abortListener without clearTimeout(timeoutId)
abortListenerKeepsTimer(k, c, i) ==
    [kx |-> notifyDrainIfBelowCap([k EXCEPT !.pending = @ \ {i},
                                            !.listeners = @ \ {i}]),
     calls |-> rejectCall(c, i, "AbortError")]

\* abortListener of call i
abortListener(k, c, i) ==
    [kx |-> notifyDrainIfBelowCap([k EXCEPT !.pending = @ \ {i},
                                            !.timers = @ \ {i},
                                            !.listeners = @ \ {i}]),
     calls |-> rejectCall(c, i, "AbortError")]

\* waitForKaTeXWorkerSlot(timeout, signal) as waiter w (timeout > 0)
waitForKaTeXWorkerSlot(k, w, signal, aborted) ==
    IF Cardinality(k.pending) < k.MAX_CONCURRENCY
      THEN [k EXCEPT !.waitStatus[w] = "resolved"]
    ELSE IF signal /\ aborted
      THEN [k EXCEPT !.waitStatus[w] = "rejected"]
    ELSE [k EXCEPT !.waitStatus[w] = "waiting",
                   !.waitTimers = @ \cup {w},
                   !.waitListeners = IF signal THEN @ \cup {w} ELSE @,
                   !.drainWaiters = @ \cup {w}]

\* waiterGivesUp without drainWaiters.delete(onDrain)
waiterGivesUpKeepsWaiter(k, w) ==
    [k EXCEPT !.waitTimers = @ \ {w},
              !.waitListeners = @ \ {w},
              !.waitStatus[w] = IF @ = "waiting" THEN "rejected" ELSE @]

\* the timer or the abort listener of waiter w
waiterGivesUp(k, w) ==
    [k EXCEPT !.drainWaiters = @ \ {w},
              !.waitTimers = @ \ {w},
              !.waitListeners = @ \ {w},
              !.waitStatus[w] = IF @ = "waiting" THEN "rejected" ELSE @]

(***************************************************************************)
(* mermaidWorkerClient.                                                    *)
(*   mm.worker      the bound Worker (0: null)                             *)
(*   mm.handlers    the workers whose handlers were set                    *)
(*   mm.terminated  the workers that were terminated                       *)
(*   mm.rpcMap      the ids in rpcMap                                      *)
(*   mm.timers      the ids whose call timer is armed                      *)
(*   mm.inbox       requests posted to a worker and not yet answered       *)
(***************************************************************************)
MmInitial ==
    [worker |-> 0, handlers |-> {}, terminated |-> {}, workerInitError |-> FALSE,
     maxConcurrency |-> MAX_CONCURRENCY_DEFAULT,
     rpcMap |-> {}, timers |-> {}, inbox |-> {}]

\* callWorker without the rpcMap.size >= maxConcurrency refusal
callWorkerNoCap(m, c, i, action, throws) ==
    LET call == [client |-> "mermaid", content |-> action, displayMode |-> FALSE,
                 signal |-> FALSE,
                 status |-> "pending", value |-> NoValue, dispatched |-> FALSE]
        rejected(code, inFlight, max) ==
            [c EXCEPT ![i] = [call EXCEPT !.status = "rejected",
                                          !.value = Settled(code, Undefined, inFlight, max)]]
    IN  IF m.workerInitError
          THEN [mm |-> m, calls |-> rejected("WORKER_INIT_ERROR", 0, 0)]
        ELSE IF m.worker = 0
          THEN [mm |-> [m EXCEPT !.workerInitError = TRUE],
                calls |-> rejected("WORKER_INIT_ERROR", 0, 0)]
        ELSE IF throws
          THEN [mm |-> m, calls |-> rejected("PostError", 0, 0)]
        ELSE [mm |-> [m EXCEPT !.rpcMap = @ \cup {i},
                               !.timers = @ \cup {i},
                               !.inbox = @ \cup {[id |-> i, worker |-> m.worker]}],
              calls |-> [c EXCEPT ![i] = [call EXCEPT !.dispatched = TRUE]]]

\* callWorker(action, payload, timeout) as call i; throws: postMessage throws
callWorker(m, c, i, action, throws) ==
    LET call == [client |-> "mermaid", content |-> action, displayMode |-> FALSE,
                 signal |-> FALSE,
                 status |-> "pending", value |-> NoValue, dispatched |-> FALSE]
        rejected(code, inFlight, max) ==
            [c EXCEPT ![i] = [call EXCEPT !.status = "rejected",
                                          !.value = Settled(code, Undefined, inFlight, max)]]
    IN  IF m.workerInitError
          THEN [mm |-> m, calls |-> rejected("WORKER_INIT_ERROR", 0, 0)]
        ELSE IF m.worker = 0
          THEN [mm |-> [m EXCEPT !.workerInitError = TRUE],
                calls |-> rejected("WORKER_INIT_ERROR", 0, 0)]
        ELSE IF Cardinality(m.rpcMap) >= m.maxConcurrency
          THEN [mm |-> m,
                calls |-> rejected("WORKER_BUSY", Cardinality(m.rpcMap), m.maxConcurrency)]
        ELSE IF throws
          THEN [mm |-> m, calls |-> rejected("PostError", 0, 0)]
        ELSE [mm |-> [m EXCEPT !.rpcMap = @ \cup {i},
                               !.timers = @ \cup {i},
                               !.inbox = @ \cup {[id |-> i, worker |-> m.worker]}],
              calls |-> [c EXCEPT ![i] = [call EXCEPT !.dispatched = TRUE]]]

\* worker.onmessage of setMermaidWorker, set on worker w, for the answer to
\* request id: pending.resolve / pending.reject run cleanup()
mermaidOnMessage(m, c, w, id, ok) ==
    IF m.worker # w \/ id \notin m.rpcMap THEN [mm |-> m, calls |-> c]
    ELSE [mm |-> [m EXCEPT !.rpcMap = @ \ {id}, !.timers = @ \ {id}],
          calls |-> IF ok THEN resolveCall(c, id, Undefined)
                    ELSE rejectCall(c, id, "RenderError")]

\* worker.onerror and worker.onmessageerror of setMermaidWorker, set on w
mermaidOnError(m, c, w, code) ==
    IF m.worker # w \/ m.rpcMap = {} THEN [mm |-> m, calls |-> c]
    ELSE [mm |-> [m EXCEPT !.rpcMap = {}, !.timers = @ \ m.rpcMap],
          calls |-> rejectAll(c, m.rpcMap, code)]

\* clearMermaidWorker
clearMermaidWorker(m, c) ==
    IF m.worker # 0
      THEN [mm |-> [m EXCEPT !.rpcMap = {}, !.timers = @ \ m.rpcMap,
                             !.terminated = @ \cup {m.worker},
                             !.inbox = {msg \in @ : msg.worker # m.worker},
                             !.worker = 0, !.workerInitError = FALSE],
            calls |-> rejectAll(c, m.rpcMap, "WorkerCleared")]
      ELSE [mm |-> [m EXCEPT !.workerInitError = FALSE], calls |-> c]

\* terminateWorker: the map is cleared, nothing is rejected, timers stay armed
terminateWorker(m) ==
    [m EXCEPT !.rpcMap = {},
              !.terminated = IF m.worker # 0 THEN @ \cup {m.worker} ELSE @,
              !.inbox = {msg \in @ : msg.worker # m.worker},
              !.worker = 0, !.workerInitError = FALSE]

\* the call timer of call i fires: rpcMap.get(id)?.reject(err)
mermaidTimeout(m, c, i) ==
    IF i \in m.rpcMap
      THEN [mm |-> [m EXCEPT !.rpcMap = @ \ {i}, !.timers = @ \ {i}],
            calls |-> rejectCall(c, i, "WORKER_TIMEOUT")]
      ELSE [mm |-> [m EXCEPT !.timers = @ \ {i}], calls |-> c]

\* the locals of a renderKaTeXWithBackpressure call (described below)
BpWaiter == 1                    \* the waiter slot the call's wait takes

PendingOutcome == [status |-> "pending", value |-> NoValue]

BpIdle ==
    [pc |-> "idle", content |-> "", displayMode |-> FALSE, signal |-> FALSE,
     aborted |-> FALSE, attempt |-> 0, maxRetries |-> 0, backoff |-> FALSE,
     call |-> 0, submits |-> 0, rejections |-> <<>>, outcome |-> PendingOutcome]

(***************************************************************************)
(* The two clients and their environment: callers, workers, timers.        *)
(*   calls[i]   the promise of the call that holds slot i, as its caller   *)
(*              sees it: pending, or settled by the step just taken; the   *)
(*              caller consumes a settled promise before the next step     *)
(***************************************************************************)
ClientsInit ==
    /\ kx = KxInitial
    /\ mm = MmInitial
    /\ calls = [i \in CallIds |-> NoCall]
    /\ props = <<>> /\ env = <<>> /\ nr = <<>> /\ host = {} /\ win = <<>> /\ slots = <<>> /\ vp = <<>>
    /\ block = <<>>
    /\ bp = BpIdle

\* the promises still awaited once the callers have consumed the settled ones
consumed(c) ==
    [i \in CallIds |-> IF c[i].status = "pending" THEN c[i] ELSE NoCall]

\* the request ids a client, a timer, a listener or a worker still holds
idsInUse ==
    kx.pending \cup kx.timers \cup kx.listeners \cup {msg.id : msg \in kx.inbox}
        \cup mm.rpcMap \cup mm.timers \cup {msg.id : msg \in mm.inbox}

\* request ids are fresh (Math.random / Date.now): a new call takes the first
\* slot that no promise and no id in use occupies
Vacant(i) == calls[i].status # "pending" /\ i \notin idsInUse
FreeCall(i) == Vacant(i) /\ \A j \in CallIds : j < i => ~Vacant(j)

\* the client once the callers of waitForKaTeXWorkerSlot have consumed the
\* promises settled by the step before
kxNow ==
    [kx EXCEPT !.waitStatus = [w \in WaiterIds |->
                                  IF @[w] = "waiting" THEN "waiting" ELSE "none"]]

(***************************************************************************)
(* renderKaTeXWithBackpressure, one call of it.                            *)
(*   bp.pc          idle; submit (awaits renderKaTeXInWorker); wait        *)
(*                  (awaits waitForKaTeXWorkerSlot); backoff (awaits the   *)
(*                  backoff timer); done                                   *)
(*   bp.attempt, bp.maxRetries, bp.backoff (backoffMs > 0), bp.signal      *)
(*   bp.aborted     the signal passed in opts has fired                    *)
(*   bp.call        the slot of the renderKaTeXInWorker call awaited       *)
(*   bp.submits     how many times renderKaTeXInWorker was called          *)
(*   bp.rejections  the codes those calls were rejected with, in order     *)
(*   bp.outcome     what the returned promise settled with                 *)
(***************************************************************************)
\* the abort listeners attached to the signal of the backpressure call
bpListeners == IF bp.pc = "submit" THEN {bp.call} ELSE {}
bpWaitListeners == IF bp.pc = "wait" THEN {BpWaiter} ELSE {}

\* the first slot free for a new request in state s (0: none)
bpSlot(s) ==
    LET held == s.kx.pending \cup s.kx.timers \cup s.kx.listeners
                    \cup {msg.id : msg \in s.kx.inbox}
        free == {i \in CallIds : s.calls[i].status = "none" /\ i \notin held}
    IN  IF free = {} THEN 0 ELSE CHOOSE i \in free : \A j \in free : i <= j

\* the promise of renderKaTeXWithBackpressure settles
bpDone(s, status, value) ==
    [kx |-> s.kx, calls |-> s.calls,
     bp |-> [s.bp EXCEPT !.pc = "done", !.outcome = [status |-> status, value |-> value]]]

RECURSIVE bpLoop(_, _)
RECURSIVE bpAfterSubmit(_, _)
RECURSIVE bpAfterWait(_, _)

\* bpAfterSubmit without the test attempt >= maxRetries
bpAfterSubmitRetriesAlways(s, throws) ==
    LET call == s.calls[s.bp.call]
    IN  IF call.status = "pending" THEN s
        ELSE IF call.status = "resolved" THEN bpDone(s, "resolved", call.value)
        ELSE Bind([kx |-> s.kx, calls |-> s.calls,
                   bp |-> [s.bp EXCEPT !.rejections = Append(@, call.value.code)]], LAMBDA s1 :
               IF call.value.code # "WORKER_BUSY"
                 THEN bpDone(s1, "rejected", call.value)
               ELSE bpAfterWait([kx |-> waitForKaTeXWorkerSlot(s1.kx, BpWaiter, s1.bp.signal,
                                                               s1.bp.aborted),
                                 calls |-> s1.calls,
                                 bp |-> [s1.bp EXCEPT !.attempt = @ + 1, !.pc = "wait"]],
                                throws))

\* bpLoop without the test of signal.aborted at the head of the loop
bpLoopNoAbortTest(s, throws) ==
    Bind(bpSlot(s), LAMBDA slot :
      IF slot = 0 THEN [kx |-> s.kx, calls |-> s.calls, bp |-> [s.bp EXCEPT !.pc = "noslot"]]
      ELSE Bind(renderKaTeXInWorker(s.kx, [j \in CallIds |-> s.calls[j]], slot, s.bp.content,
                                    s.bp.displayMode, s.bp.signal, s.bp.aborted, throws),
                LAMBDA res :
                  bpAfterSubmit([kx |-> res.kx, calls |-> res.calls,
                                 bp |-> [s.bp EXCEPT !.pc = "submit",
                                                     !.call = slot,
                                                     !.submits = @ + 1]],
                                throws)))

\* one turn of for (;;): the abort test, then renderKaTeXInWorker (handed the
\* table of promises as a function of its own)
bpLoop(s, throws) ==
    IF s.bp.signal /\ s.bp.aborted
      THEN bpDone(s, "rejected", Settled("AbortError", Undefined, 0, 0))
    ELSE Bind(bpSlot(s), LAMBDA slot :
           IF slot = 0 THEN [kx |-> s.kx, calls |-> s.calls, bp |-> [s.bp EXCEPT !.pc = "noslot"]]
           ELSE Bind(renderKaTeXInWorker(s.kx, [j \in CallIds |-> s.calls[j]], slot, s.bp.content, s.bp.displayMode,
                                         s.bp.signal, s.bp.aborted, throws),
                     LAMBDA res :
                       bpAfterSubmit([kx |-> res.kx, calls |-> res.calls,
                                      bp |-> [s.bp EXCEPT !.pc = "submit",
                                                          !.call = slot,
                                                          !.submits = @ + 1]],
                                     throws)))

\* after await renderKaTeXInWorker: return, throw, or wait for a slot
bpAfterSubmit(s, throws) ==
    LET call == s.calls[s.bp.call]
    IN  IF call.status = "pending" THEN s
        ELSE IF call.status = "resolved" THEN bpDone(s, "resolved", call.value)
        ELSE Bind([kx |-> s.kx, calls |-> s.calls,
                   bp |-> [s.bp EXCEPT !.rejections = Append(@, call.value.code)]], LAMBDA s1 :
               IF call.value.code # "WORKER_BUSY" \/ s1.bp.attempt >= s1.bp.maxRetries
                 THEN bpDone(s1, "rejected", call.value)
               ELSE bpAfterWait([kx |-> waitForKaTeXWorkerSlot(s1.kx, BpWaiter, s1.bp.signal,
                                                               s1.bp.aborted),
                                 calls |-> s1.calls,
                                 bp |-> [s1.bp EXCEPT !.attempt = @ + 1, !.pc = "wait"]],
                                throws))

\* after await waitForKaTeXWorkerSlot(...).catch(() => {}): the abort test,
\* then the backoff
bpAfterWait(s, throws) ==
    IF s.kx.waitStatus[BpWaiter] = "waiting" THEN s
    ELSE IF s.bp.signal /\ s.bp.aborted
      THEN bpDone(s, "rejected", Settled("AbortError", Undefined, 0, 0))
    ELSE IF s.bp.backoff
      THEN [kx |-> s.kx, calls |-> s.calls, bp |-> [s.bp EXCEPT !.pc = "backoff"]]
    ELSE bpLoop(s, throws)

\* the continuation of the call once what it awaits has settled
bpResume(s, throws) ==
    IF s.bp.pc = "submit" THEN bpAfterSubmit(s, throws)
    ELSE IF s.bp.pc = "wait" THEN bpAfterWait(s, throws)
    ELSE s

KxStep(r) ==
    \E throws \in IF bp.pc \in {"submit", "wait"} THEN BOOLEAN ELSE {FALSE} :
        \E s \in {bpResume([kx |-> r.kx, calls |-> r.calls, bp |-> bp], throws)} :
            /\ s.bp.pc # "noslot"
            /\ kx' = s.kx
            /\ calls' = s.calls
            /\ bp' = s.bp
            /\ UNCHANGED <<mm, nrVars, win, block, slots, vp>>
MmStep(r) == mm' = r.mm /\ calls' = r.calls /\ UNCHANGED <<kx, nrVars, win, block, bp, slots, vp>>

SetKaTeXWorker ==
    \E w \in Workers \ kx.terminated :
        KxStep([kx |-> [kxNow EXCEPT !.worker = w, !.workerInitError = FALSE,
                                  !.handlers = @ \cup {w}],
                calls |-> consumed(calls)])

ClearKaTeXWorker ==
    KxStep([kx |-> [kxNow EXCEPT
                      !.terminated = IF kx.worker # 0 THEN @ \cup {kx.worker} ELSE @,
                      !.inbox = {msg \in @ : msg.worker # kx.worker},
                      !.worker = 0, !.workerInitError = FALSE],
            calls |-> consumed(calls)])

RenderKaTeXInWorker ==
    \E i \in CallIds, f \in Formulas,
       signal \in BOOLEAN, aborted \in BOOLEAN, throws \in BOOLEAN :
        /\ FreeCall(i)
        /\ aborted => signal
        /\ \E r \in {renderKaTeXInWorker(kxNow, consumed(calls), i, f.content, f.displayMode,
                                         signal, aborted, throws)} : KxStep(r)

KaTeXWorkerMessage ==
    \E msg \in kx.inbox, error \in BOOLEAN :
        \E r \in {katexOnMessage([kxNow EXCEPT !.inbox = @ \ {msg}], consumed(calls),
                                 msg.id, error)} : KxStep(r)

KaTeXWorkerError ==
    \E w \in kx.handlers \ kx.terminated :
        \E r \in {katexOnError(kxNow, consumed(calls))} : KxStep(r)

KaTeXTimeout ==
    \E i \in kx.timers :
        \E r \in {katexTimeout(kxNow, consumed(calls), i)} : KxStep(r)

\* the AbortSignal passed with call i fires while its listener is attached
KaTeXAbort ==
    \E i \in kx.listeners \ bpListeners :
        \E r \in {abortListener(kxNow, consumed(calls), i)} : KxStep(r)

SetKaTeXCacheOf(f) ==
    \E html \in {EmptyHtml, renderToString(f.content, f.displayMode)} :
        KxStep([kx |-> [kxNow EXCEPT !.cache = cacheSet(@, cacheKeyOf(f.content,
                                                                  f.displayMode), html)],
                calls |-> consumed(calls)])

SetKaTeXCache == \E f \in Formulas : SetKaTeXCacheOf(f)

ClearKaTeXCache ==
    KxStep([kx |-> [kxNow EXCEPT !.cache = <<>>], calls |-> consumed(calls)])

SetKaTeXConcurrencyLimit ==
    \E limit \in 0 .. MaxCap :
        KxStep([kx |-> notifyDrainIfBelowCap([kxNow EXCEPT !.MAX_CONCURRENCY = Max(1, limit)]),
                calls |-> consumed(calls)])

WaitForKaTeXWorkerSlot ==
    \E w \in WaiterIds, signal \in BOOLEAN, aborted \in BOOLEAN :
        /\ kx.waitStatus[w] # "waiting"
        /\ aborted => signal
        /\ KxStep([kx |-> waitForKaTeXWorkerSlot(kxNow, w, signal, aborted),
                   calls |-> consumed(calls)])

WaiterTimeout ==
    \E w \in kx.waitTimers :
        KxStep([kx |-> waiterGivesUp(kxNow, w), calls |-> consumed(calls)])

WaiterAbort ==
    \E w \in kx.waitListeners \ bpWaitListeners :
        KxStep([kx |-> waiterGivesUp(kxNow, w), calls |-> consumed(calls)])

SetMermaidWorker ==
    \E w \in Workers \ mm.terminated :
        MmStep([mm |-> [mm EXCEPT !.worker = w, !.workerInitError = FALSE,
                                  !.handlers = @ \cup {w}],
                calls |-> consumed(calls)])

ClearMermaidWorker ==
    \E r \in {clearMermaidWorker(mm, consumed(calls))} : MmStep(r)

TerminateWorker ==
    MmStep([mm |-> terminateWorker(mm), calls |-> consumed(calls)])

SetMermaidWorkerMaxConcurrency ==
    \E n \in 0 .. MaxCap :
        MmStep([mm |-> IF n > 0 THEN [mm EXCEPT !.maxConcurrency = n] ELSE mm,
                calls |-> consumed(calls)])

CallWorker ==
    \E i \in CallIds, action \in {"canParse", "findPrefix"}, throws \in BOOLEAN :
        /\ FreeCall(i)
        /\ \E r \in {callWorker(mm, consumed(calls), i, action, throws)} : MmStep(r)

MermaidWorkerMessage ==
    \E msg \in mm.inbox, ok \in BOOLEAN :
        \E r \in {mermaidOnMessage([mm EXCEPT !.inbox = @ \ {msg}], consumed(calls),
                                   msg.worker, msg.id, ok)} : MmStep(r)

MermaidWorkerError ==
    \E w \in mm.handlers \ mm.terminated, code \in {"WorkerError", "WorkerMessageError"} :
        \E r \in {mermaidOnError(mm, consumed(calls), w, code)} : MmStep(r)

MermaidTimeout ==
    \E i \in mm.timers :
        \E r \in {mermaidTimeout(mm, consumed(calls), i)} : MmStep(r)

KaTeXNext ==
    \/ SetKaTeXWorker
    \/ ClearKaTeXWorker
    \/ RenderKaTeXInWorker
    \/ KaTeXWorkerMessage
    \/ KaTeXWorkerError
    \/ KaTeXTimeout
    \/ KaTeXAbort
    \/ SetKaTeXCache
    \/ ClearKaTeXCache
    \/ SetKaTeXConcurrencyLimit
    \/ WaitForKaTeXWorkerSlot
    \/ WaiterTimeout
    \/ WaiterAbort

MermaidNext ==
    \/ SetMermaidWorker
    \/ ClearMermaidWorker
    \/ TerminateWorker
    \/ SetMermaidWorkerMaxConcurrency
    \/ CallWorker
    \/ MermaidWorkerMessage
    \/ MermaidWorkerError
    \/ MermaidTimeout

SpecKaTeX == ClientsInit /\ [][KaTeXNext]_vars
SpecMermaid == ClientsInit /\ [][MermaidNext]_vars

\* the two clients share no state: a behaviour of the pair exercises one of
\* them while the other stays as it was loaded
ClientsNext ==
    \/ KaTeXNext /\ mm = MmInitial
    \/ MermaidNext /\ kx = KxInitial

SpecClients == ClientsInit /\ [][ClientsNext]_vars

\* renderKaTeXWithBackpressure(content, displayMode, opts) is called
RenderKaTeXWithBackpressure ==
    \E f \in Formulas, signal \in BOOLEAN, aborted \in BOOLEAN,
       maxRetries \in 0 .. MaxRetries, backoff \in BOOLEAN, throws \in BOOLEAN :
        /\ bp.pc = "idle"
        /\ aborted => signal
        /\ \E s \in {bpLoop([kx |-> kxNow, calls |-> consumed(calls),
                             bp |-> [bp EXCEPT !.content = f.content,
                                               !.displayMode = f.displayMode,
                                               !.signal = signal,
                                               !.aborted = aborted,
                                               !.maxRetries = maxRetries,
                                               !.backoff = backoff]], throws)} :
              /\ s.bp.pc # "noslot"
              /\ kx' = s.kx /\ calls' = s.calls /\ bp' = s.bp
              /\ UNCHANGED <<mm, nrVars, win, block, slots, vp>>

\* the signal passed in opts fires: the abort listener of the request in
\* flight or of the wait runs, then the continuation
BackpressureAbort ==
    \E throws \in BOOLEAN :
        /\ bp.pc \in {"submit", "wait", "backoff"}
        /\ bp.signal /\ ~bp.aborted
        /\ \E r \in {IF bp.pc = "submit" /\ bp.call \in kx.listeners
                       THEN abortListener(kxNow, consumed(calls), bp.call)
                     ELSE IF bp.pc = "wait" /\ BpWaiter \in kx.waitListeners
                       THEN [kx |-> waiterGivesUp(kxNow, BpWaiter), calls |-> consumed(calls)]
                     ELSE [kx |-> kxNow, calls |-> consumed(calls)]} :
              \E s \in {bpResume([kx |-> r.kx, calls |-> r.calls,
                                  bp |-> [bp EXCEPT !.aborted = TRUE]], throws)} :
                  /\ s.bp.pc # "noslot"
                  /\ kx' = s.kx /\ calls' = s.calls /\ bp' = s.bp
                  /\ UNCHANGED <<mm, nrVars, win, block, slots, vp>>

\* the backoff timer fires
BackoffElapsed ==
    \E throws \in BOOLEAN :
        /\ bp.pc = "backoff"
        /\ \E s \in {bpLoop([kx |-> kxNow, calls |-> consumed(calls), bp |-> bp], throws)} :
              /\ s.bp.pc # "noslot"
              /\ kx' = s.kx /\ calls' = s.calls /\ bp' = s.bp
              /\ UNCHANGED <<mm, nrVars, win, block, slots, vp>>

\* what the other callers do before and while the call runs
BackpressureCallers ==
    \/ SetKaTeXWorker
    \/ SetKaTeXConcurrencyLimit
    \/ RenderKaTeXInWorker

\* what the worker, the timers and the signals of the other callers do while
\* the call runs
BackpressureEvents ==
    \/ KaTeXWorkerMessage
    \/ KaTeXWorkerError
    \/ KaTeXTimeout
    \/ KaTeXAbort
    \/ ClearKaTeXWorker
    \/ WaiterTimeout

\* one backpressure call next to the other callers of the formula client,
\* followed until its promise settles
BackpressureNext ==
    \/ RenderKaTeXWithBackpressure
    \/ BackpressureAbort
    \/ BackoffElapsed
    \/ BackpressureCallers /\ bp.pc # "done"
    \/ BackpressureEvents /\ bp.pc \notin {"idle", "done"}

SpecBackpressure == ClientsInit /\ [][BackpressureNext]_vars

(***************************************************************************)
(* The formula cache at its capacity: the client after FilledTo formulas   *)
(* "1", "2", ... were cached in that order, then written, read and cleared.*)
(***************************************************************************)
Numbered(n) == [content |-> ToString(n), displayMode |-> TRUE]

FilledCache(n) ==
    [i \in 1 .. n |-> [key |-> cacheKeyOf(ToString(i), TRUE),
                       html |-> renderToString(ToString(i), TRUE)]]

CacheInit ==
    /\ \E n \in (CACHE_MAX - MaxOldest) .. CACHE_MAX :
          kx = [KxInitial EXCEPT !.cache = FilledCache(n)]
    /\ mm = MmInitial
    /\ calls = [i \in CallIds |-> NoCall]
    /\ props = <<>> /\ env = <<>> /\ nr = <<>> /\ host = {} /\ win = <<>> /\ slots = <<>> /\ vp = <<>>
    /\ block = <<>>
    /\ bp = BpIdle

\* setKaTeXCache of a formula of the callers or of one of the oldest cached
SetKaTeXCacheAtCapacity ==
    \E f \in Formulas \cup {Numbered(n) : n \in 1 .. MaxOldest} : SetKaTeXCacheOf(f)

\* writes by setKaTeXCache and by the worker's answers, reads by
\* renderKaTeXInWorker (one request at a time, without a signal), clears
CacheNext ==
    \/ SetKaTeXCacheAtCapacity
    \/ ClearKaTeXCache
    \/ SetKaTeXWorker /\ kx.worker = 0
    \/ RenderKaTeXInWorker /\ kx.inbox = {} /\ kx'.listeners = {}
    \/ KaTeXWorkerMessage

SpecCache == CacheInit /\ [][CacheNext]_vars

(***************************************************************************)
(* viewportPriority: one registrar of createViewportRegistrar.             *)
(*   vp.isBrowser     window and document are defined                      *)
(*   vp.hasIO         IntersectionObserver is defined                      *)
(*   vp.enabled       what enabled() returns                               *)
(*   vp.root          what getRoot() returns                               *)
(*   vp.observer      observer is not null                                 *)
(*   vp.made          how many IntersectionObservers were constructed      *)
(*   vp.live          how many of them were not disconnected               *)
(*   vp.currentRoot   the root the observer was made for                   *)
(*   vp.observed      the elements the observer observes                   *)
(*   vp.targets[el]   the handle whose {resolve, state} targets maps el    *)
(*                    to (0: no entry)                                     *)
(*   vp.handles[h]    the h-th handle register returned: its element,      *)
(*                    state.current, whether isVisible is () => true,      *)
(*                    settled, how often res() was called, and whether     *)
(*                    destroy() was called while it was not yet visible    *)
(***************************************************************************)
Elements == {1, 2}
Roots == {0, 1}                     \* 0 stands for null
HandleIds == 1 .. MaxHandles

NoHandle ==
    [used |-> FALSE, el |-> 0, current |-> FALSE, always |-> FALSE,
     settled |-> FALSE, resolutions |-> 0, destroyed |-> FALSE]

VpInitial(isBrowser, hasIO, enabled, root) ==
    [isBrowser |-> isBrowser, hasIO |-> hasIO, enabled |-> enabled, root |-> root,
     observer |-> FALSE, made |-> 0, live |-> 0, currentRoot |-> 0, observed |-> {},
     targets |-> [el \in Elements |-> 0],
     handles |-> [h \in HandleIds |-> NoHandle]]

\* handle.isVisible()
isVisible(v, h) == v.handles[h].always \/ v.handles[h].current

\* the resolve of register: res() is called unless settled
resolveHandle(v, h) ==
    IF v.handles[h].settled THEN v
    ELSE [v EXCEPT !.handles[h].settled = TRUE, !.handles[h].resolutions = @ + 1]

\* ensureObserver whose new observer observes no target of the registry
ensureObserverNoReattach(v) ==
    IF ~v.isBrowser \/ ~v.hasIO THEN [obs |-> FALSE, v |-> v]
    ELSE IF v.observer /\ v.root = v.currentRoot THEN [obs |-> TRUE, v |-> v]
    ELSE [obs |-> TRUE,
          v |-> [v EXCEPT !.observer = TRUE,
                          !.made = @ + 1,
                          !.live = IF v.observer THEN @ ELSE @ + 1,
                          !.currentRoot = v.root,
                          !.observed = {}]]

\* ensureObserver: the observer (none: FALSE) and the registrar after it
ensureObserver(v) ==
    IF ~v.isBrowser \/ ~v.hasIO THEN [obs |-> FALSE, v |-> v]
    ELSE IF v.observer /\ v.root = v.currentRoot THEN [obs |-> TRUE, v |-> v]
    ELSE [obs |-> TRUE,
          v |-> [v EXCEPT !.observer = TRUE,
                          !.made = @ + 1,
                          !.live = IF v.observer THEN @ ELSE @ + 1,
                          !.currentRoot = v.root,
                          !.observed = {el \in Elements : v.targets[el] # 0}]]

\* the handle that is visible from the start
visibleHandle(v, h, el) ==
    resolveHandle([v EXCEPT !.handles[h] =
                      [NoHandle EXCEPT !.used = TRUE, !.el = el, !.current = TRUE,
                                       !.always = TRUE]], h)

\* register that observes the element whatever enabled() returns
registerIgnoresEnabled(v, h, el) ==
    IF ~v.isBrowser THEN visibleHandle(v, h, el)
    ELSE Bind(ensureObserver(v),
              LAMBDA r :
                 IF ~r.obs THEN visibleHandle(r.v, h, el)
                 ELSE [r.v EXCEPT !.targets[el] = h,
                                  !.observed = @ \cup {el},
                                  !.handles[h] = [NoHandle EXCEPT !.used = TRUE, !.el = el]])

\* register(el), returning the handle h
register(v, h, el) ==
    IF ~v.isBrowser \/ ~v.enabled THEN visibleHandle(v, h, el)
    ELSE Bind(ensureObserver(v),
              LAMBDA r :
                 IF ~r.obs THEN visibleHandle(r.v, h, el)
                 ELSE [r.v EXCEPT !.targets[el] = h,
                                  !.observed = @ \cup {el},
                                  !.handles[h] = [NoHandle EXCEPT !.used = TRUE, !.el = el]])

\* handle.destroy()
destroy(v, h) ==
    LET el == v.handles[h].el
    IN  [v EXCEPT !.targets[el] = 0,
                  !.observed = @ \ {el},
                  !.handles[h].destroyed = @ \/ ~isVisible(v, h)]

\* handleEntry that leaves the target observed and registered
handleEntryKeepsTarget(v, el) ==
    IF v.targets[el] = 0 THEN v
    ELSE resolveHandle([v EXCEPT !.handles[v.targets[el]].current = TRUE], v.targets[el])

\* the body of the loop of handleEntries for an entry that intersects
handleEntry(v, el) ==
    IF v.targets[el] = 0 THEN v
    ELSE Bind(resolveHandle([v EXCEPT !.handles[v.targets[el]].current = TRUE],
                            v.targets[el]),
              LAMBDA v1 : [v1 EXCEPT !.observed = @ \ {el}, !.targets[el] = 0])

\* handleEntries(entries) for intersecting entries of the elements els
RECURSIVE handleEntries(_, _)
handleEntries(v, els) ==
    IF els = {} THEN v
    ELSE LET el == CHOOSE e \in els : \A o \in els : e <= o
         IN  handleEntries(handleEntry(v, el), els \ {el})

ViewportInit ==
    /\ \E isBrowser \in BOOLEAN, hasIO \in BOOLEAN, enabled \in BOOLEAN, root \in Roots :
           vp = VpInitial(isBrowser, hasIO, enabled, root)
    /\ props = <<>> /\ env = <<>> /\ nr = <<>> /\ host = {} /\ win = <<>> /\ slots = <<>>
    /\ kx = <<>> /\ mm = <<>> /\ calls = <<>> /\ block = <<>> /\ bp = <<>>

VpStep(v) == vp' = v /\ UNCHANGED <<nrVars, win, clientVars, slots>>

\* a component registers an element
Register(el) ==
    \E h \in HandleIds :
        /\ ~vp.handles[h].used
        /\ \A g \in HandleIds : g < h => vp.handles[g].used
        /\ VpStep(register(vp, h, el))

\* a component destroys a handle it holds
Destroy(h) ==
    /\ vp.handles[h].used
    /\ VpStep(destroy(vp, h))

\* the observer calls back with intersecting entries of elements it observes
Intersect(els) ==
    /\ els # {}
    /\ els \subseteq vp.observed
    /\ VpStep(handleEntries(vp, els))

\* ViewportPriorityProvider is rendered with another enabled
SetEnabled == VpStep([vp EXCEPT !.enabled = ~@])

\* getRoot() returns another element
SetRoot == \E root \in Roots \ {vp.root} : VpStep([vp EXCEPT !.root = root])

ViewportNext ==
    \/ \E el \in Elements : Register(el)
    \/ \E h \in HandleIds : Destroy(h)
    \/ \E els \in SUBSET Elements : Intersect(els)
    \/ SetEnabled
    \/ SetRoot

SpecViewport == ViewportInit /\ [][ViewportNext]_vars

(***************************************************************************)
(* MermaidBlockNode: the progressive render of one diagram block.          *)
(*   block.code              baseFixedCode                                 *)
(*   block.viewportReady, block.showSource, block.streaming   hook state   *)
(*   block.mermaid           mermaidRef.current is set                     *)
(*   block.renderToken       renderTokenRef.current                        *)
(*   block.svgCache          svgCacheRef.current[theme]                    *)
(*   block.lastRenderedCode  lastRenderedCodeRef.current                   *)
(*   block.hasRenderedOnce   hasRenderedOnce (and its ref)                 *)
(*   block.content           contentRef.current.innerHTML; the content     *)
(*                           element is mounted while showSource is false  *)
(*   block.error             error (null, or the message displayed)        *)
(*   block.attempts[t]       the progressiveRender call that took token t: *)
(*                           the await it is suspended at, its code,       *)
(*                           whether it got a signal and the signal fired, *)
(*                           and streaming as its callbacks closed over it *)
(***************************************************************************)
Codes == {<<"x">>, <<"y">>, <<"x", " ">>, <<" ">>}
Tokens == 1 .. MaxToken
None == <<>>                        \* undefined / the empty innerHTML

\* code.replace(/\s+/g, '') and !code.trim()
RECURSIVE normalized(_)
normalized(code) ==
    IF code = <<>> THEN <<>>
    ELSE IF Head(code) = " " THEN normalized(Tail(code))
    ELSE <<Head(code)>> \o normalized(Tail(code))
blank(code) == normalized(code) = <<>>

\* what mermaid.render gives for the whole code, and for a prefix of it
svgOf(code) == <<"svg", code>>
svgOfPrefix(code) == <<"svg", "prefix", code>>

NoAttempt ==
    [pc |-> "none", code |-> <<>>, signal |-> FALSE, aborted |-> FALSE, streaming |-> FALSE]

\* err.message of what renderFull catches: the DOMException of an abort, or
\* another error (of mermaid.render, of the time-out, of a write to the
\* content element that is gone)
Messages == {"Aborted", "failed"}
NoError == ""                       \* error === null: no message is displayed

mounted(b) == ~b.showSource

\* progressiveRender without the comparison with lastRenderedCodeRef
progressiveRenderAlways(b, code, signal) ==
    IF blank(code)
      THEN [b EXCEPT !.content = None, !.hasRenderedOnce = FALSE, !.lastRenderedCode = <<>>]
    ELSE [b EXCEPT !.renderToken = @ + 1,
                   !.attempts[b.renderToken + 1] =
                       [pc |-> "canParse", code |-> code, signal |-> signal,
                        aborted |-> FALSE, streaming |-> b.streaming]]

\* progressiveRender(code, signal) up to its first await
progressiveRender(b, code, signal) ==
    IF blank(code)
      THEN [b EXCEPT !.content = None, !.hasRenderedOnce = FALSE, !.lastRenderedCode = <<>>]
    ELSE IF normalized(code) = b.lastRenderedCode /\ b.hasRenderedOnce
      THEN b
    ELSE [b EXCEPT !.renderToken = @ + 1,
                   !.attempts[b.renderToken + 1] =
                       [pc |-> "canParse", code |-> code, signal |-> signal,
                        aborted |-> FALSE, streaming |-> b.streaming]]

\* the catch of renderFull: if (!streaming) setError(message)
renderFullCatch(b, streaming, message) ==
    IF ~streaming THEN [b EXCEPT !.error = message] ELSE b

\* controller.abort() of the render effect's cleanup: an attempt suspended in
\* withTimeoutSignal is rejected with AbortError, which renderFull catches
\* and renderPartial swallows, and returns; one suspended in a worker call
\* sees signal.aborted when the call returns and returns without a render
\* (streaming is not read by it again)
abortAttempts(b) ==
    LET hit == {a \in Tokens : /\ b.attempts[a].pc # "none"
                               /\ b.attempts[a].signal
                               /\ ~b.attempts[a].aborted}
        caught == {a \in hit : b.attempts[a].pc = "renderFull" /\ ~b.attempts[a].streaming}
        b1 == [b EXCEPT !.attempts =
                  [a \in Tokens |->
                      IF a \notin hit THEN @[a]
                      ELSE IF @[a].pc \in {"renderFull", "renderPartial"} THEN NoAttempt
                      ELSE [@[a] EXCEPT !.aborted = TRUE, !.streaming = FALSE]]]
    IN  IF caught = {} THEN b1 ELSE renderFullCatch(b1, FALSE, "Aborted")

\* the render effect when one of its dependencies changed
renderEffect(b) ==
    LET cleaned == abortAttempts(b)
    IN  IF ~cleaned.viewportReady \/ cleaned.showSource THEN cleaned
        ELSE progressiveRender(cleaned, cleaned.code, TRUE)

\* the continuation of attempt a after canParseWithFallback
afterCanParse(b, a, ok) ==
    LET at == b.attempts[a]
    IN  IF ok
          THEN IF at.aborted \/ b.renderToken # a
                 THEN [b EXCEPT !.attempts[a] = NoAttempt]
               ELSE IF ~b.mermaid \/ ~mounted(b)
                 THEN [b EXCEPT !.attempts[a] = NoAttempt]
               ELSE [b EXCEPT !.attempts[a].pc = "renderFull"]
        ELSE IF at.aborted
          THEN [b EXCEPT !.attempts[a] = NoAttempt]
        ELSE [b EXCEPT !.attempts[a].pc = "findPrefix"]

\* the continuation of attempt a in renderFull after mermaid.render resolved
\* with an svg or rejected (an error of mermaid, or the time-out), and the
\* assignment to lastRenderedCodeRef that follows in progressiveRender
afterRenderFull(b, a, svg) ==
    LET at == b.attempts[a]
        ended == [b EXCEPT !.attempts[a] = NoAttempt]
    IN  IF svg /\ mounted(b)
          THEN [ended EXCEPT !.content = svgOf(at.code),
                             !.svgCache = svgOf(at.code),
                             !.hasRenderedOnce = TRUE,
                             !.error = NoError,
                             !.lastRenderedCode = normalized(at.code)]
        ELSE renderFullCatch(ended, at.streaming, "failed")

\* the continuation of attempt a after findPrefixCandidate
afterFindPrefix(b, a, prefix) ==
    LET at == b.attempts[a]
    IN  IF ~prefix \/ at.aborted \/ b.renderToken # a
          THEN [b EXCEPT !.attempts[a] = NoAttempt]
        ELSE IF ~b.mermaid \/ ~mounted(b)
          THEN [b EXCEPT !.attempts[a] = NoAttempt]
        ELSE [b EXCEPT !.attempts[a].pc = "renderPartial"]

\* renderPartial marking the block as rendered, as renderFull does
afterRenderPartialMarksRendered(b, a, svg) ==
    LET at == b.attempts[a]
    IN  IF svg /\ mounted(b)
          THEN [b EXCEPT !.content = svgOfPrefix(at.code), !.attempts[a] = NoAttempt,
                         !.hasRenderedOnce = TRUE,
                         !.lastRenderedCode = normalized(at.code)]
        ELSE [b EXCEPT !.attempts[a] = NoAttempt]

\* the continuation of attempt a in renderPartial after mermaid.render
afterRenderPartial(b, a, svg) ==
    LET at == b.attempts[a]
    IN  IF svg /\ mounted(b)
          THEN [b EXCEPT !.content = svgOfPrefix(at.code), !.attempts[a] = NoAttempt]
        ELSE [b EXCEPT !.attempts[a] = NoAttempt]

\* handleSwitchMode(target) and the commit that follows it
handleSwitchMode(b, target) ==
    IF target = "preview"
      THEN LET handled ==
                   IF b.hasRenderedOnce /\ b.svgCache # None /\ mounted(b)
                     THEN [b EXCEPT !.content = b.svgCache]
                   ELSE progressiveRender(b, b.code, FALSE)
           IN  IF b.showSource
                 THEN renderEffect([handled EXCEPT !.showSource = FALSE, !.content = None])
               ELSE handled
    ELSE IF b.showSource THEN b
    ELSE renderEffect([b EXCEPT !.showSource = TRUE, !.content = None])

BlockInitial ==
    [code |-> <<"x">>, viewportReady |-> FALSE, showSource |-> FALSE,
     streaming |-> TRUE, mermaid |-> FALSE,
     renderToken |-> 0, svgCache |-> None, lastRenderedCode |-> <<>>,
     hasRenderedOnce |-> FALSE, content |-> None, error |-> NoError,
     attempts |-> [a \in Tokens |-> NoAttempt]]

MermaidBlockInit ==
    /\ \E code \in Codes : block = [BlockInitial EXCEPT !.code = code]
    /\ props = <<>> /\ env = <<>> /\ nr = <<>> /\ host = {} /\ win = <<>> /\ slots = <<>> /\ vp = <<>>
    /\ kx = <<>> /\ mm = <<>> /\ calls = <<>> /\ bp = <<>>

BlockStep(b) ==
    /\ b.renderToken <= MaxToken
    /\ block' = b
    /\ UNCHANGED <<nrVars, win, kx, mm, calls, bp, slots, vp>>

\* getMermaid() resolves
GetMermaidDone ==
    /\ ~block.mermaid
    /\ BlockStep([block EXCEPT !.mermaid = TRUE])

\* the viewport registrar reports the block visible
ViewportReady ==
    /\ ~block.viewportReady
    /\ \E b \in {renderEffect([block EXCEPT !.viewportReady = TRUE])} : BlockStep(b)

\* props.node.code changes: the cache effect, then the render effect
SetCode ==
    \E code \in Codes \ {block.code} :
        \E b \in {renderEffect([block EXCEPT !.code = code, !.svgCache = None])} :
            BlockStep(b)

\* props.node.loading changes: renderFull and progressiveRender are new
\* callbacks, so the render effect runs again
SetStreaming ==
    \E b \in {renderEffect([block EXCEPT !.streaming = ~@])} : BlockStep(b)

\* a click on the Preview or the Source button (shown once mermaid is there)
HandleSwitchMode ==
    \E target \in {"preview", "source"} :
        /\ block.mermaid
        /\ \E b \in {handleSwitchMode(block, target)} : BlockStep(b)

CanParseDone(a, ok) ==
    /\ block.attempts[a].pc = "canParse"
    /\ \E b \in {afterCanParse(block, a, ok)} : BlockStep(b)

RenderFullDone(a, svg) ==
    /\ block.attempts[a].pc = "renderFull"
    /\ \E b \in {afterRenderFull(block, a, svg)} : BlockStep(b)

FindPrefixDone(a, prefix) ==
    /\ block.attempts[a].pc = "findPrefix"
    /\ \E b \in {afterFindPrefix(block, a, prefix)} : BlockStep(b)

RenderPartialDone(a, svg) ==
    /\ block.attempts[a].pc = "renderPartial"
    /\ \E b \in {afterRenderPartial(block, a, svg)} : BlockStep(b)

CanParseReturns == \E a \in Tokens, ok \in BOOLEAN : CanParseDone(a, ok)
RenderFullReturns == \E a \in Tokens, svg \in BOOLEAN : RenderFullDone(a, svg)
FindPrefixReturns == \E a \in Tokens, prefix \in BOOLEAN : FindPrefixDone(a, prefix)
RenderPartialReturns == \E a \in Tokens, svg \in BOOLEAN : RenderPartialDone(a, svg)

MermaidBlockNext ==
    \/ GetMermaidDone
    \/ ViewportReady
    \/ SetCode
    \/ SetStreaming
    \/ HandleSwitchMode
    \/ CanParseReturns
    \/ RenderFullReturns
    \/ FindPrefixReturns
    \/ RenderPartialReturns

SpecMermaidBlock == MermaidBlockInit /\ [][MermaidBlockNext]_vars

(***************************************************************************)
(* The partial render of MermaidBlockNode and the text it renders.  A text *)
(* is the sequence of its lines, code.split('\n'); the empty string is     *)
(* <<>>.                                                                   *)
(*   block.code    the code progressiveRender was called with              *)
(*   block.pc      findPrefix (awaits findPrefixCandidate); renderPartial  *)
(*                 (about to call it); rendered (mermaid.render was called *)
(*                 with block.text); returned (progressiveRender returned  *)
(*                 with no render)                                         *)
(*   block.prefix  what findPrefixCandidate returned                       *)
(*   block.text    the text renderPartial handed to applyThemeTo           *)
(***************************************************************************)
SourceLines == {"", "A --> B", "A -->", "sequenceDiagram"}

\* last.trimEnd() === ''
blankLine(line) == line = ""

\* looksDangling: "A -->" ends in a connector (and in '>'),
\* "sequenceDiagram" is a diagram keyword with nothing after it
looksDangling(line) == line \in {"A -->", "sequenceDiagram"}

Texts == UNION {[1 .. n -> SourceLines] : n \in 0 .. MaxLines}

\* code.split('\n') and lines.join('\n')
splitLines(text) == IF text = <<>> THEN <<"">> ELSE text
joinLines(lines) == IF lines = <<"">> THEN <<>> ELSE lines

\* the while loop of getSafePrefixCandidate
RECURSIVE popDangling(_)
popDangling(lines) ==
    IF lines = <<>> THEN lines
    ELSE IF blankLine(lines[Len(lines)]) \/ looksDangling(lines[Len(lines)])
      THEN popDangling(SubSeq(lines, 1, Len(lines) - 1))
    ELSE lines

getSafePrefixCandidate(code) == joinLines(popDangling(splitLines(code)))

\* !code.trim(): every line of the code is blank
blankText(code) == \A n \in 1 .. Len(code) : blankLine(code[n])

\* findPrefixCandidate: workerPrefix is what findPrefixOffthread resolved
\* with, <<>> when it resolved with null or '' or rejected
findPrefixCandidate(code, workerPrefix) ==
    IF workerPrefix # <<>> THEN workerPrefix ELSE getSafePrefixCandidate(code)

\* renderPartial: safePrefix || code
renderPartialSource(code) ==
    IF getSafePrefixCandidate(code) # <<>> THEN getSafePrefixCandidate(code) ELSE code

\* what the worker may answer to findPrefix for the code: a prefix of it
WorkerPrefixes(code) == {SubSeq(code, 1, n) : n \in 1 .. Len(code)}

PrefixInitial(code) == [code |-> code, pc |-> "findPrefix", prefix |-> <<>>, text |-> <<>>]

PrefixInit ==
    /\ \E code \in {t \in Texts : ~blankText(t)} : block = PrefixInitial(code)
    /\ props = <<>> /\ env = <<>> /\ nr = <<>> /\ host = {}
    /\ win = <<>> /\ slots = <<>> /\ vp = <<>>
    /\ kx = <<>> /\ mm = <<>> /\ calls = <<>> /\ bp = <<>>

PrefixStep(b) == block' = b /\ UNCHANGED <<nrVars, win, kx, mm, calls, bp, slots, vp>>

\* findPrefixOffthread rejects or resolves with nothing: the prefix is
\* computed on the main thread; if (!prefix) return
FindPrefixOnMainThread ==
    /\ block.pc = "findPrefix"
    /\ \E prefix \in {findPrefixCandidate(block.code, <<>>)} :
          PrefixStep([block EXCEPT !.prefix = prefix,
                                   !.pc = IF prefix = <<>> THEN "returned"
                                          ELSE "renderPartial"])

\* findPrefixOffthread resolves with a prefix
FindPrefixByWorker ==
    /\ block.pc = "findPrefix"
    /\ \E workerPrefix \in WorkerPrefixes(block.code) :
          \E prefix \in {findPrefixCandidate(block.code, workerPrefix)} :
              PrefixStep([block EXCEPT !.prefix = prefix,
                                       !.pc = IF prefix = <<>> THEN "returned"
                                              ELSE "renderPartial"])

\* renderPartial(prefix, theme, signal) up to mermaid.render
RenderPartialCalled ==
    /\ block.pc = "renderPartial"
    /\ \E text \in {renderPartialSource(block.prefix)} :
          PrefixStep([block EXCEPT !.text = text, !.pc = "rendered"])

\* the code changes and the render effect starts another attempt, which
\* gets to findPrefixCandidate
PrefixNewCode ==
    /\ block.pc \in {"rendered", "returned"}
    /\ \E code \in {t \in Texts : ~blankText(t)} \ {block.code} :
          PrefixStep(PrefixInitial(code))

PrefixNext ==
    \/ FindPrefixOnMainThread
    \/ FindPrefixByWorker
    \/ RenderPartialCalled
    \/ PrefixNewCode

SpecPrefix == PrefixInit /\ [][PrefixNext]_vars

(***************************************************************************)
(* Several MermaidBlockNode components and the diagram client they share.  *)
(*   block[n].mounted   component n is mounted                             *)
(*   block[n].pc        where the attempt of its render effect is: idle;   *)
(*                      canParse / findPrefix (awaits canParseOffthread /  *)
(*                      findPrefixOffthread); main (parses or renders on   *)
(*                      the main thread)                                   *)
(*   block[n].call      the slot of the callWorker call it awaits, or 0    *)
(*   block[n].aborted   controller.abort() was called for the attempt      *)
(***************************************************************************)
Components == {1, 2}

BlockIdle == [mounted |-> FALSE, pc |-> "idle", call |-> 0, aborted |-> FALSE]

\* canParseOffthread / findPrefixOffthread called by the attempt of component
\* n as call i: neither is given the signal of the attempt; a call rejected
\* at once makes canParseWithFallback go on on the main thread and
\* findPrefixCandidate return the prefix it computes itself
offthread(m, c, b, n, i, action) ==
    LET r == callWorker(m, c, i, action, FALSE)
        awaited == r.calls[i].status = "pending"
    IN  [mm |-> r.mm, calls |-> r.calls,
         block |-> [b EXCEPT ![n].pc = IF awaited THEN action
                                       ELSE IF action = "canParse" THEN "main" ELSE "idle",
                             ![n].call = IF awaited THEN i ELSE 0]]

\* the attempts go on when the call they await has settled: after canParse
\* progressiveRender returns if signal.aborted (so does the main-thread
\* parse, with AbortError), else it works on the main thread; after
\* findPrefix what follows needs no worker
resumeAttempts(b, c) ==
    [n \in Components |->
        IF b[n].call = 0 \/ c[b[n].call].status = "pending" THEN b[n]
        ELSE [b[n] EXCEPT !.call = 0,
                          !.pc = IF b[n].pc = "canParse" /\ ~b[n].aborted THEN "main"
                                 ELSE "idle",
                          !.aborted = IF b[n].pc = "canParse" /\ ~b[n].aborted THEN @
                                      ELSE FALSE]]

\* controller.abort() for the attempt of component n: withTimeoutSignal
\* rejects what runs on the main thread and the attempt returns; a worker
\* call has no listener on the signal and stays as it is
abortAttempt(b, n) ==
    IF b[n].pc = "idle" THEN b
    ELSE IF b[n].pc = "main" THEN [b EXCEPT ![n].pc = "idle", ![n].aborted = FALSE]
    ELSE [b EXCEPT ![n].aborted = TRUE]

DiagramsInit ==
    /\ mm = MmInitial
    /\ kx = KxInitial
    /\ calls = [i \in CallIds |-> NoCall]
    /\ block = [n \in Components |-> BlockIdle]
    /\ props = <<>> /\ env = <<>> /\ nr = <<>> /\ host = {}
    /\ win = <<>> /\ slots = <<>> /\ vp = <<>> /\ bp = <<>>

DiagramStep(r) ==
    /\ mm' = r.mm
    /\ calls' = r.calls
    /\ block' = resumeAttempts(r.block, r.calls)
    /\ UNCHANGED <<kx, nrVars, win, bp, slots, vp>>

\* the application binds a worker: setMermaidWorker(new MermaidWorker())
BindDiagramWorker ==
    \E w \in Workers \ mm.terminated :
        DiagramStep([mm |-> [mm EXCEPT !.worker = w, !.workerInitError = FALSE,
                                       !.handlers = @ \cup {w}],
                     calls |-> consumed(calls), block |-> block])

\* component n is mounted
MountBlock(n) ==
    /\ ~block[n].mounted /\ block[n].pc = "idle"
    /\ DiagramStep([mm |-> mm, calls |-> consumed(calls),
                    block |-> [block EXCEPT ![n].mounted = TRUE]])

\* the render effect of component n starts an attempt: progressiveRender
\* calls canParseWithFallback, which calls canParseOffthread
StartAttempt(n) ==
    \E i \in CallIds :
        /\ FreeCall(i)
        /\ block[n].mounted /\ block[n].pc = "idle"
        /\ \E r \in {offthread(mm, consumed(calls), block, n, i, "canParse")} : DiagramStep(r)

\* what the attempt of component n does on the main thread ends: with an
\* error that is no AbortError progressiveRender calls findPrefixCandidate,
\* which calls findPrefixOffthread
MainThreadDone(n) ==
    \E failed \in BOOLEAN, i \in CallIds :
        /\ FreeCall(i)
        /\ block[n].pc = "main"
        /\ \E r \in {IF failed
                        THEN offthread(mm, consumed(calls), block, n, i, "findPrefix")
                      ELSE [mm |-> mm, calls |-> consumed(calls),
                            block |-> [block EXCEPT ![n].pc = "idle"]]} : DiagramStep(r)

\* the cleanup of the render effect of component n while it stays mounted
AbortAttempt(n) ==
    /\ block[n].mounted /\ block[n].pc # "idle" /\ ~block[n].aborted
    /\ \E b \in {abortAttempt(block, n)} :
          DiagramStep([mm |-> mm, calls |-> consumed(calls), block |-> b])

\* component n is unmounted: the cleanup of its render effect, and the
\* cleanup of its unmount effect, terminateMermaidWorker()
UnmountBlock(n) ==
    /\ block[n].mounted
    /\ \E b \in {abortAttempt(block, n)} :
          DiagramStep([mm |-> terminateWorker(mm), calls |-> consumed(calls),
                       block |-> [b EXCEPT ![n].mounted = FALSE]])

DiagramWorkerAnswers ==
    \E msg \in mm.inbox, ok \in BOOLEAN :
        \E r \in {mermaidOnMessage([mm EXCEPT !.inbox = @ \ {msg}], consumed(calls),
                                   msg.worker, msg.id, ok)} :
            DiagramStep([mm |-> r.mm, calls |-> r.calls, block |-> block])

DiagramCallTimeout ==
    \E i \in mm.timers :
        \E r \in {mermaidTimeout(mm, consumed(calls), i)} :
            DiagramStep([mm |-> r.mm, calls |-> r.calls, block |-> block])

DiagramsNext ==
    \/ BindDiagramWorker
    \/ \E n \in Components : MountBlock(n)
    \/ \E n \in Components : StartAttempt(n)
    \/ \E n \in Components : MainThreadDone(n)
    \/ \E n \in Components : AbortAttempt(n)
    \/ \E n \in Components : UnmountBlock(n)
    \/ DiagramWorkerAnswers
    \/ DiagramCallTimeout

SpecDiagrams == DiagramsInit /\ [][DiagramsNext]_vars

(***************************************************************************)
(* Properties of the renderer.                                             *)
(***************************************************************************)

\* C1: with batching enabled and the document and settings fixed, promotion
\* goes on until renderedCount equals the number of nodes: whenever no
\* promotion callback is outstanding (so that none will ever run again),
\* renderedCount has reached the total.
C1_ReachesTotal ==
    (batchingEnabled(props) /\ host = {}) => nr.renderedCount = props.total

\* C6: every range the live-range effect sets satisfies
\* 0 <= start <= end <= total and end - start <= maxLiveNodes.
C6_LiveRangeBounds ==
    /\ 0 <= win.liveRange.start
    /\ win.liveRange.start <= win.liveRange.end
    /\ win.liveRange.end <= win.total
    /\ win.liveRange.end - win.liveRange.start <= maxLiveNodesResolved(win)

\* C6 witness: the buffered range around the focus was larger than the
\* limit and has been trimmed to exactly the limit
C6_Witness ==
    /\ win.total > win.maxLiveNodes
    /\ Min(win.total, win.focusIndex + win.liveNodeBuffer + 1)
         - Max(0, win.focusIndex - win.liveNodeBuffer) > win.maxLiveNodes
    /\ win.focusIndex > 0 /\ win.focusIndex < win.total
    /\ win.liveRange.end - win.liveRange.start = win.maxLiveNodes

\* C7: when there is at least one node, the range set by the effect holds
\* the focus index clamped to the document: start <= focus <= end.
C7_FocusInRange ==
    win.total > 0 =>
        LET focus == Max(0, Min(win.focusIndex, win.total - 1))
        IN  win.liveRange.start <= focus /\ focus <= win.liveRange.end

\* C8: the focus index never decreases.
C8_FocusMonotone ==
    [][nr'.focusIndex >= nr.focusIndex]_vars

\* C9 as stated: renderedCount decreases only in a step that changes the
\* dataset identity or the batch configuration.
C9_DecreaseOnlyAtReset ==
    [][nr'.renderedCount < nr.renderedCount
         => datasetChangedBy(props', nr) \/ batchConfigChangedBy(props', nr)]_vars

\* C9 amended: renderedCount decreases only in a step that changes the
\* dataset identity or the batch configuration, or that lowers the number
\* of nodes below renderedCount.
C9_DecreaseOnlyAtResetOrShrink ==
    [][nr'.renderedCount < nr.renderedCount
         => \/ datasetChangedBy(props', nr)
            \/ batchConfigChangedBy(props', nr)
            \/ props'.total < nr.renderedCount]_vars

\* C9 witness: under a caller-supplied key the number of nodes dropped below
\* renderedCount, and the dataset effect lowered renderedCount to it
C9_Witness ==
    /\ batchingEnabled(props)
    /\ props.indexKey # 0
    /\ nr.capped
    /\ props.total > 0
    /\ nr.renderedCount = props.total

\* the step changes the number of nodes, the dataset key or the batch
\* configuration
InputsChange ==
    \/ props'.total # props.total
    \/ props'.indexKey # props.indexKey
    \/ props'.renderBatchSize # props.renderBatchSize
    \/ props'.initialRenderBatchSize # props.initialRenderBatchSize
    \/ props'.renderBatchDelay # props.renderBatchDelay
    \/ props'.batchRendering # props.batchRendering

\* the target the dataset effect of the step reads (desiredRenderedCountRef)
TargetOfStep == desiredRenderedCount(props', nr.liveRange.end, nr.renderedCount)

\* no older promotion step is outstanding after the step, and a new one of
\* the initial batch size is scheduled exactly if there are nodes, batching
\* is enabled and renderedCount < target
Rescheduled(target) ==
    IF props'.total > 0 /\ batchingEnabled(props') /\ nr'.renderedCount < target
      THEN /\ nr'.batchPendingRef
           /\ nr'.pendingIncrementRef = Max(1, resolvedInitialBatch(props'))
           /\ Cardinality(host') = 1
           /\ \A cb \in host' : cb.amount = Max(1, resolvedInitialBatch(props'))
      ELSE ~nr'.batchPendingRef /\ host' = {}

\* the step left renderedCount at the initial batch and the adaptive
\* increment at the batch size, and rescheduled the promotion
ResetTo(target) ==
    /\ nr'.renderedCount = Min(target, resolvedInitialBatch(props'))
    /\ nr'.adaptiveBatchSizeRef = Max(1, resolvedBatchSize(props'))
    /\ Rescheduled(target)

\* C19 as stated: each change of the number of nodes, of the dataset key or
\* of the batch configuration (batch size, initial batch size, delay, enabled
\* flag) resets renderedCount to min(target, initial batch size), resets the
\* adaptive increment, cancels the outstanding promotion step and schedules
\* a new one when renderedCount < target.
C19_ResetOnChange ==
    [][InputsChange => \A target \in {TargetOfStep} : ResetTo(target)]_vars

\* the changes on which the dataset effect starts over: the key, if one is
\* supplied; the number of nodes, if none is; the batch configuration
ResetInputsChange ==
    \/ props'.indexKey # 0 /\ props'.indexKey # props.indexKey
    \/ props'.indexKey = 0 /\ props'.total # props.total
    \/ resolvedBatchSize(props') # resolvedBatchSize(props)
    \/ resolvedInitialBatch(props') # resolvedInitialBatch(props)
    \/ currentDelay(props') # currentDelay(props)
    \/ batchingEnabled(props') # batchingEnabled(props)

\* C19 amended: a change of the supplied dataset key, of the number of nodes
\* when no key is supplied, or of the batch configuration resets the adaptive
\* increment, cancels the outstanding promotion step and, with batching
\* enabled and at least one node, resets renderedCount to min(target,
\* initial batch size) and schedules a new step when renderedCount < target;
\* every other change of the inputs (the number of nodes under an unchanged
\* supplied key, the key being withdrawn) only lowers renderedCount to the
\* target, leaving the adaptive increment as it was; in both cases
\* renderedCount becomes 0 without nodes and the target with batching
\* disabled.
C19_ResetOnKeyOrConfigChange ==
    [][InputsChange =>
         \A target \in {TargetOfStep} :
            /\ nr'.renderedCount =
                  IF props'.total = 0 THEN 0
                  ELSE IF ~batchingEnabled(props') THEN target
                  ELSE IF ResetInputsChange THEN Min(target, resolvedInitialBatch(props'))
                  ELSE Min(nr.renderedCount, target)
            /\ nr'.adaptiveBatchSizeRef =
                  IF ResetInputsChange THEN Max(1, resolvedBatchSize(props'))
                  ELSE nr.adaptiveBatchSizeRef
            /\ IF ResetInputsChange \/ ~batchingEnabled(props')
                 THEN Rescheduled(target)
                 ELSE props'.total > 0 /\ nr'.renderedCount < target
                          => nr'.batchPendingRef /\ host' # {}]_vars

\* C19 witness: batching on, batch size 1, initial batch 2, three nodes: a
\* promotion step of two nodes is outstanding, which only the starting over
\* of the dataset effect schedules
C19_Witness ==
    /\ batchingEnabled(props)
    /\ props.total = MaxTotal
    /\ props.renderBatchSize = 1
    /\ props.initialRenderBatchSize = 2
    /\ nr.renderedCount = 2
    /\ nr.batchPendingRef
    /\ nr.pendingIncrementRef = 2
    /\ nr.adaptiveBatchSizeRef = 1

\* a document of 1000 nodes with initialRenderBatchSize 40 and
\* renderBatchSize 80, without virtualization
Thousand ==
    [total |-> 1000, indexKey |-> 0, batchRendering |-> TRUE,
     renderBatchSize |-> 80, initialRenderBatchSize |-> 40,
     renderBatchDelay |-> 16, maxLiveNodes |-> 0, liveNodeBuffer |-> 0]

\* C20: immediately after mount renderedCount = min(total,
\* initialRenderBatchSize) with batching enabled (40 for 1000 nodes, initial
\* batch 40, batch size 80) and renderedCount = total with batching disabled.
C20_CountAfterMount ==
    [][Mount =>
         /\ batchingEnabled(props) =>
                nr'.renderedCount = Min(props.total, props.initialRenderBatchSize)
         /\ ~batchingEnabled(props) => nr'.renderedCount = props.total
         /\ \A s \in {mount(Thousand, env)} : s.renderedCount = 40]_vars

\* C20 witness: NodeRenderer has been mounted with batching enabled, three
\* nodes and an initial batch of two, and shows two nodes
C20_Witness ==
    /\ Mounted
    /\ batchingEnabled(props)
    /\ props.total = MaxTotal
    /\ props.initialRenderBatchSize = 2
    /\ nr.renderedCount = 2
    /\ host # {}

\* C21: a slot has node-content only if its index is below renderedCount and
\* deferral is off, or the index is below the initial batch size, or the
\* render found the slot's visibility flag set; no slot at or beyond
\* renderedCount, at or beyond the total, or outside the live window has
\* node-content.
C21_MaterializedOnlyIfAllowed ==
    \A i \in slots.content :
        /\ i < nr.renderedCount
        /\ i < props.total
        /\ \/ ~slots.deferNodes
           \/ i < props.initialRenderBatchSize
           \/ i \in slots.read
        /\ nr.liveRange.start <= i /\ i < nr.liveRange.end

\* C21 witness: with deferral on and an initial batch of one, slot 1 has
\* node-content because its flag was set, and slot 2, also below
\* renderedCount, has none
C21_Witness ==
    /\ slots.deferNodes
    /\ props.initialRenderBatchSize = 1
    /\ nr.renderedCount = MaxTotal
    /\ 1 \in slots.content /\ 1 \in slots.read
    /\ 2 \notin slots.content
    /\ 2 \in visibleNodes(props, nr)

\* C37: at most one promotion callback (idle callback, animation frame or
\* timer) is outstanding on the host, and one is outstanding exactly while
\* batchPendingRef is set; scheduleBatch called while one is outstanding
\* asks the host for nothing and changes pendingIncrementRef only, to the
\* maximum of what it held and the amount asked for.
C37_OneCallbackOutstanding ==
    /\ Cardinality(host) <= 1
    /\ nr.batchPendingRef <=> host # {}
    /\ nr.batchPendingRef =>
          \A increment \in 0 .. MaxTotal :
              LET s == scheduleBatch(props, env, nr, increment)
              IN  /\ s.request = {}
                  /\ s = [nr EXCEPT !.pendingIncrementRef = s.pendingIncrementRef]
                  /\ s.pendingIncrementRef
                        \in {nr.pendingIncrementRef,
                             Max(nr.pendingIncrementRef, Max(1, increment))}
                  /\ s.pendingIncrementRef >= nr.pendingIncrementRef

\* C37 witness: one callback is outstanding, and a scheduleBatch called
\* after it was requested has raised pendingIncrementRef above the amount
\* the callback was requested with
C37_Witness ==
    /\ Cardinality(host) = 1
    /\ \E cb \in host : nr.pendingIncrementRef > cb.amount

\* C38: a promotion callback that is outstanding when the dataset or the
\* batch configuration changes, when batching is disabled or when the
\* component unmounts is cancelled, whichever path requested it (idle
\* callback, animation frame, timer after the animation frame, plain timer):
\* the callbacks the host holds afterwards were all requested after the
\* cancellation, so a step scheduled before it never runs.
C38_CancelledNeverRuns ==
    [][/\ (Mounted /\ ~Mounted') => host' = {}
       /\ (/\ Mounted /\ Mounted' /\ props' # props
           /\ \/ datasetChangedBy(props', nr)
              \/ batchConfigChangedBy(props', nr)
              \/ ~batchingEnabled(props'))
          => \E s \in {settle(props', env, renderPass(props, props', env, nr, FALSE))} :
                 /\ \A cb \in host : cb.kind \in s.cancelled
                 /\ host' = s.request]_vars

\* C38 witness: the timer requested by the animation frame is outstanding
\* (batchRafRef still holds the handle of the frame that ran), and a change
\* of the batch configuration as well as the unmount leave the host without
\* it
C38_Witness ==
    /\ Mounted
    /\ nr.batchRafRef /\ nr.batchTimeoutRef
    /\ \E cb \in host : cb.kind = "timeout"
    /\ ENABLED (Unmount /\ host' = {})
    /\ ENABLED (Rerender([props EXCEPT !.batchRendering = FALSE]) /\ host' = {})

\* C39: with deferral on, when the visibility signal of a mounted slot fires
\* whose index is below renderedCount and at or beyond the initial batch
\* size, the slot has node-content once the handler and the renders it
\* causes are done, with no other change of the document, of renderedCount
\* or of the focus index.
C39_VisibleSlotMaterialized ==
    [][\A index \in slots.observed :
          (/\ slots.deferNodes
           /\ index < nr.renderedCount
           /\ index >= resolvedInitialBatch(props)
           /\ SlotVisibleAt(index))
          => index \in slots'.content]_vars

\* the full renders of the sources that progressiveRender does not tell
\* from code (they differ in white space only)
FullRendersOf(code) ==
    {svgOf(c) : c \in {c \in Codes : normalized(c) = normalized(code)}}

\* C40: whenever the preview is shown and progressiveRender, called by the
\* render effect for the current source, takes the short-circuit (the source
\* is not blank, its normalized form equals lastRenderedCodeRef and
\* hasRenderedOnce is set), the content element holds the full render of the
\* current source; in particular after the content element was mounted
\* again by a switch to the source and back to the preview.
C40_SkipShowsFullRender ==
    (/\ block.viewportReady /\ ~block.showSource
     /\ ~blank(block.code)
     /\ progressiveRender(block, block.code, TRUE) = block)
    => block.content \in FullRendersOf(block.code)

\* C31: when a slot that had node-content and a recorded height has none any
\* more because it left the live window, the height recorded for it stays
\* in the height map and is the term the spacer estimate takes for its index.
C31_HeightRemembered ==
    [][\A i \in DOMAIN slots.heights :
         (/\ i \in slots.content
          /\ i < props'.total
          /\ i \notin visibleNodes(props', nr'))
             => estimatedHeight(slots'.heights, i)
                    = [measured |-> TRUE, height |-> slots.heights[i]]]_vars

\* C26: whenever batching is enabled and renderedCount is below the target
\* (the total; under virtualization the end of the live window plus the
\* buffer, at least the initial batch, at most the total), a promotion step
\* is pending on the scheduling hook.
C26_StepPendingBelowTarget ==
    (/\ batchingEnabled(props)
     /\ nr.renderedCount < desiredRenderedCount(props, nr.liveRange.end, nr.renderedCount))
        => host # {}

\* C27: after every promotion step and every reset the adaptive increment
\* lies between max(1, floor(batchSize / 4)) and max(1, batchSize); a step
\* whose cost is above 1.2 times the budget takes it to floor(0.7 times it),
\* a step whose cost is below half the budget to ceil(1.2 times it), both
\* kept within these limits, and any other step leaves it as it is.
C27_AdaptiveWithinLimits ==
    [][\A a \in {nr.adaptiveBatchSizeRef}, b \in {nr'.adaptiveBatchSizeRef} :
         LET maxSize == Max(1, props'.renderBatchSize)
             minSize == Max(1, props'.renderBatchSize \div 4)
         IN  /\ minSize <= b /\ b <= maxSize
             /\ Adjust("mid") => b = a
             /\ Adjust("slow") =>
                   \/ ~batchingEnabled(props) /\ b = a
                   \/ /\ batchingEnabled(props)
                      /\ \E x \in 0 .. MaxBatch + 1 :
                            /\ 10 * x <= 7 * a /\ 7 * a < 10 * (x + 1)
                            /\ b = Max(minSize, x)
             /\ Adjust("fast") =>
                   \/ ~batchingEnabled(props) /\ b = a
                   \/ /\ batchingEnabled(props)
                      /\ \E y \in 0 .. 2 * (MaxBatch + 1) :
                            /\ 10 * (y - 1) < 12 * a /\ 12 * a <= 10 * y
                            /\ b = Min(maxSize, y)]_vars

\* C27 witness: with the largest batch size the increment has been shrunk
\* to the lower limit, a quarter of the batch size
C27_Witness ==
    /\ batchingEnabled(props)
    /\ props.renderBatchSize = MaxBatch
    /\ nr.adaptiveBatchSizeRef = MaxBatch \div 4

\* C10: 0 <= renderedCount <= total in every state.
C10_RenderedWithinTotal ==
    0 <= nr.renderedCount /\ nr.renderedCount <= props.total

(***************************************************************************)
(* Properties of the worker clients.                                       *)
(***************************************************************************)

\* slot i holds, after the step, the promise of a call made by the step
Submitted(i) == calls[i].status # "pending" /\ calls'[i].status # "none"

\* the rejection of a submission refused for lack of capacity
Busy(inFlight, max) == Settled("WORKER_BUSY", Undefined, inFlight, max)

\* a step that posts a request to a worker is taken below the cap
DispatchBelowCap ==
    /\ kx'.inbox \ kx.inbox # {} => Cardinality(kx.pending) < kx.MAX_CONCURRENCY
    /\ mm'.inbox \ mm.inbox # {} => Cardinality(mm.rpcMap) < mm.maxConcurrency

\* a diagram submission at or above the cap is refused
MermaidBusyAtCapacity(i) ==
    (/\ Submitted(i)
     /\ calls'[i].client = "mermaid"
     /\ Cardinality(mm.rpcMap) >= mm.maxConcurrency)
        => /\ calls'[i].status = "rejected"
           /\ calls'[i].value = Busy(Cardinality(mm.rpcMap), mm.maxConcurrency)
           /\ mm'.inbox = mm.inbox
           /\ mm'.rpcMap = mm.rpcMap

C3_OneDispatchPerFormula ==
    \A i, j \in kx.pending :
        (/\ calls[i].status = "pending" /\ calls[j].status = "pending"
         /\ calls[i].content = calls[j].content
         /\ calls[i].displayMode = calls[j].displayMode) => i = j

\* the abort listener of call i runs
KaTeXAbortOf(i) ==
    /\ i \in kx.listeners
    /\ KxStep(abortListener(kxNow, consumed(calls), i))

\* what firing the token of call i does to call i and to the other requests
AbortSettles(i) ==
    /\ calls'[i].status = "rejected"
    /\ calls'[i].value.code = "AbortError"
    /\ i \notin kx'.pending
    /\ i \notin kx'.timers
    /\ kx'.pending = kx.pending \ {i}
    /\ kx'.timers = kx.timers \ {i}
    /\ kx'.inbox = kx.inbox
    /\ \A j \in CallIds \ {i} : calls[j].status = "pending" => calls'[j] = calls[j]

\* a waitForKaTeXWorkerSlot call made in the state after the step resolves
\* at once
SlotFreeAfter ==
    \A w \in WaiterIds :
        waitForKaTeXWorkerSlot(kx', w, FALSE, FALSE).waitStatus[w] = "resolved"

\* C4 as stated: firing the token of a formula request before its response
\* arrives rejects it with AbortError, removes its pending entry and timer,
\* leaves the other requests as they are and, when the client was at
\* capacity (in-flight >= cap), frees a slot.
C4_AbortFreesSlot ==
    [][\A i \in CallIds :
         KaTeXAbortOf(i)
            => /\ AbortSettles(i)
               /\ Cardinality(kx.pending) >= kx.MAX_CONCURRENCY => SlotFreeAfter]_vars

\* C4 amended: firing the token of a formula request that is still in flight
\* rejects it with AbortError, removes its pending entry and timer, leaves
\* the other requests as they are and, when the in-flight count was exactly
\* the cap, frees a slot.
C4_AbortOfPendingFreesSlot ==
    [][\A i \in CallIds :
         (KaTeXAbortOf(i) /\ i \in kx.pending)
            => /\ AbortSettles(i)
               /\ Cardinality(kx.pending) = kx.MAX_CONCURRENCY => SlotFreeAfter]_vars

\* C4 witness: the cap is reached by the requests in flight except the one
\* just rejected with AbortError, so a slot is free again
C4_Witness ==
    \E i \in CallIds :
        /\ calls[i].status = "rejected"
        /\ calls[i].value.code = "AbortError"
        /\ calls[i].dispatched
        /\ Cardinality(kx.pending) + 1 = kx.MAX_CONCURRENCY
        /\ kx.worker # 0

\* C11: a submission is rejected with WORKER_INIT_ERROR, posting nothing and
\* adding no pending entry, exactly when no worker is bound at the time of
\* the call, in both clients and whatever the payload.
C11_InitErrorIffNoWorker ==
    [][\A i \in CallIds :
         /\ (Submitted(i) /\ calls'[i].client = "katex")
               => /\ (kx.worker = 0) <=> (/\ calls'[i].status = "rejected"
                                         /\ calls'[i].value.code = "WORKER_INIT_ERROR")
                  /\ kx.worker = 0 => kx'.inbox = kx.inbox /\ kx'.pending = kx.pending
         /\ (Submitted(i) /\ calls'[i].client = "mermaid")
               => /\ (mm.worker = 0) <=> (/\ calls'[i].status = "rejected"
                                         /\ calls'[i].value.code = "WORKER_INIT_ERROR")
                  /\ mm.worker = 0 => mm'.inbox = mm.inbox /\ mm'.rpcMap = mm.rpcMap]_vars

\* the requests either client holds a pending entry for
InFlight == kx.pending \cup mm.rpcMap

\* an event for a request that has no pending entry any more: a late
\* response, a late timer, a late abort, or a worker error with nothing pending
LateEvent ==
    \/ \E msg \in kx.inbox, error \in BOOLEAN :
          /\ msg.id \notin kx.pending
          /\ KxStep(katexOnMessage([kxNow EXCEPT !.inbox = @ \ {msg}], consumed(calls),
                                   msg.id, error))
    \/ \E i \in kx.timers \ kx.pending : KxStep(katexTimeout(kxNow, consumed(calls), i))
    \/ \E i \in kx.listeners \ kx.pending : KxStep(abortListener(kxNow, consumed(calls), i))
    \/ kx.pending = {} /\ KaTeXWorkerError
    \/ \E msg \in mm.inbox, ok \in BOOLEAN :
          /\ msg.id \notin mm.rpcMap
          /\ MmStep(mermaidOnMessage([mm EXCEPT !.inbox = @ \ {msg}], consumed(calls),
                                     msg.worker, msg.id, ok))
    \/ \E i \in mm.timers \ mm.rpcMap : MmStep(mermaidTimeout(mm, consumed(calls), i))
    \/ mm.rpcMap = {} /\ MermaidWorkerError

\* the step changed no pending map, not the cache, not the waiter set, and
\* settled no promise
Quiet ==
    /\ kx'.pending = kx.pending
    /\ kx'.cache = kx.cache
    /\ kx'.drainWaiters = kx.drainWaiters
    /\ mm'.rpcMap = mm.rpcMap
    /\ calls' = consumed(calls)

\* C12: a pending promise is settled only by the step that removes its
\* pending entry, so at most once; an event that arrives for a request whose
\* entry is gone (late response, timer, abort, worker error) changes neither
\* a pending map, nor the cache, nor the waiter set, and settles nothing.
C12_SettledOnce ==
    [][/\ \A i \in CallIds :
            (calls[i].status = "pending" /\ calls'[i].status # "pending")
                => /\ calls'[i].status \in {"resolved", "rejected"}
                   /\ i \in InFlight
                   /\ i \notin kx'.pending \cup mm'.rpcMap
       /\ LateEvent => Quiet]_vars

\* C12 witness: a formula request has just been settled by its timer, while
\* the worker's answer to it is still on its way and its abort listener is
\* still attached
C12_Witness ==
    \E i \in CallIds :
        /\ calls[i].status = "rejected"
        /\ calls[i].value.code = "WORKER_TIMEOUT"
        /\ calls[i].client = "katex"
        /\ i \notin kx.pending
        /\ i \in kx.listeners
        /\ \E msg \in kx.inbox : msg.id = i

\* C28: the answer a worker sends for request id settles the pending request
\* with that id and no other, whatever else is in flight and in whatever
\* order the answers come (the formula client takes it from any worker, the
\* diagram client from the bound one); an answer whose id has no pending
\* entry leaves the client and every promise as they were, the cache included.
C28_ResponseSettlesItsRequest ==
    /\ \A msg \in kx.inbox, error \in BOOLEAN :
          LET k == [kxNow EXCEPT !.inbox = @ \ {msg}]
              c == consumed(calls)
              r == katexOnMessage(k, c, msg.id, error)
          IN  /\ \A j \in CallIds \ {msg.id} : r.calls[j] = c[j]
              /\ r.kx.pending = k.pending \ {msg.id}
              /\ msg.id \in k.pending =>
                    /\ c[msg.id].status = "pending"
                    /\ r.calls[msg.id].status = IF error THEN "rejected" ELSE "resolved"
              /\ msg.id \notin k.pending => r.kx = k /\ r.calls = c
    /\ \A msg \in mm.inbox, ok \in BOOLEAN :
          LET m == [mm EXCEPT !.inbox = @ \ {msg}]
              c == consumed(calls)
              r == mermaidOnMessage(m, c, msg.worker, msg.id, ok)
          IN  /\ \A j \in CallIds \ {msg.id} : r.calls[j] = c[j]
              /\ r.mm.rpcMap \in {m.rpcMap, m.rpcMap \ {msg.id}}
              /\ (msg.id \in m.rpcMap /\ msg.worker = m.worker) =>
                    /\ c[msg.id].status = "pending"
                    /\ msg.id \notin r.mm.rpcMap
                    /\ r.calls[msg.id].status = IF ok THEN "resolved" ELSE "rejected"
              /\ msg.id \notin m.rpcMap => r.mm = m /\ r.calls = c

\* C28 witness: the answer to a later formula request has resolved it while
\* an earlier request is still pending with its answer on the way
C28_Witness ==
    \E i, j \in CallIds :
        /\ i < j
        /\ calls[j].client = "katex" /\ calls[j].dispatched
        /\ calls[j].status = "resolved"
        /\ calls[i].client = "katex" /\ calls[i].status = "pending"
        /\ i \in kx.pending
        /\ \E msg \in kx.inbox : msg.id = i

C13_SettledByTimeout ==
    [][\A i \in CallIds :
         (/\ calls[i].status = "pending"
          /\ i \in kx.timers \cup mm.timers
          /\ i \notin kx'.timers \cup mm'.timers)
            => calls'[i].status # "pending"]_vars

\* waitForKaTeXWorkerSlot(timeout, signal) is called and returns promise w
WaitCalled(w, signal, aborted) ==
    /\ kx.waitStatus[w] # "waiting"
    /\ kx' = waitForKaTeXWorkerSlot(kxNow, w, signal, aborted)

\* no callback of promise w is left: not in the waiter set, no timer, no
\* abort listener
WaiterGone(k, w) ==
    w \notin k.drainWaiters \cup k.waitTimers \cup k.waitListeners

\* C16: waitForKaTeXWorkerSlot called below the cap resolves at once; called
\* at the cap (signal not aborted) it waits in the waiter set, settles once,
\* by a drain notification below the cap (resolve), by its timer or by its
\* signal (reject), and in each case its waiter leaves the waiter set with
\* its timer and listener, so that nothing can settle it again.
C16_WaiterSettlesOnce ==
    [][\A w \in WaiterIds :
         /\ \A signal \in BOOLEAN, aborted \in BOOLEAN :
               (WaitCalled(w, signal, aborted) /\ (aborted => signal))
                  => IF Cardinality(kx.pending) < kx.MAX_CONCURRENCY
                       THEN kx'.waitStatus[w] = "resolved" /\ WaiterGone(kx', w)
                     ELSE IF aborted
                       THEN kx'.waitStatus[w] = "rejected" /\ WaiterGone(kx', w)
                     ELSE /\ kx'.waitStatus[w] = "waiting"
                          /\ w \in kx'.drainWaiters /\ w \in kx'.waitTimers
                          /\ w \in kx'.waitListeners <=> signal
         /\ (kx.waitStatus[w] = "waiting" /\ kx'.waitStatus[w] # "waiting")
               => /\ w \in kx.drainWaiters
                  /\ WaiterGone(kx', w)
                  /\ \/ /\ kx'.waitStatus[w] = "resolved"
                        /\ Cardinality(kx'.pending) < kx'.MAX_CONCURRENCY
                     \/ /\ kx'.waitStatus[w] = "rejected"
                        /\ w \in kx.waitTimers \cup kx.waitListeners
                        /\ kx'.pending = kx.pending
         /\ kx.waitStatus[w] # "waiting" => WaiterGone(kx, w)]_vars

\* a waiter that was waiting has been rejected by its timer or its signal
\* while the client is still at its cap
C16_Witness ==
    \E w \in WaiterIds :
        /\ kx.waitStatus[w] = "rejected"
        /\ kx.pending # {}
        /\ Cardinality(kx.pending) >= kx.MAX_CONCURRENCY
        /\ WaiterGone(kx, w)

\* C18: in both clients, once another worker is bound, the delivery of a
\* message that the worker bound before sent settles no request and changes
\* nothing in the client (the message is consumed, that is all).
C18_StaleWorkerIgnored ==
    [][/\ \A msg \in kx.inbox :
            (kx.worker # 0 /\ msg.worker # kx.worker /\ kx'.inbox = kx.inbox \ {msg})
                => /\ kx' = [kxNow EXCEPT !.inbox = @ \ {msg}]
                   /\ calls' = consumed(calls)
       /\ \A msg \in mm.inbox :
            (mm.worker # 0 /\ msg.worker # mm.worker /\ mm'.inbox = mm.inbox \ {msg})
                => /\ mm' = [mm EXCEPT !.inbox = @ \ {msg}]
                   /\ calls' = consumed(calls)]_vars

\* the keys of the cache in the order the Map iterates them
cacheKeys(cache) == [n \in 1 .. Len(cache) |-> cache[n].key]

\* C17: the formula cache never holds more than CACHE_MAX (200) entries; a
\* step either leaves the order of its keys as it was (a read, an overwrite
\* of a key it holds: nothing is evicted), empties it (clearKaTeXCache), or
\* puts a key it did not hold at the end and, only if it was full, drops the
\* key at the front, the one inserted earliest.
C17_BoundedFifoCache ==
    [][\A old \in {cacheKeys(kx.cache)}, new \in {cacheKeys(kx'.cache)} :
         /\ Len(new) <= CACHE_MAX
         /\ \/ new = old
            \/ new = <<>>
            \/ /\ new # <<>>
               /\ \A n \in 1 .. Len(old) : old[n] # new[Len(new)]
               /\ SubSeq(new, 1, Len(new) - 1)
                     = IF Len(old) = CACHE_MAX THEN Tail(old) ELSE old]_vars

\* the cache was full; a new formula evicted "1", the earliest; "1" was then
\* cached again, evicted "2" and stands at the end
C17_Witness ==
    /\ Len(kx.cache) = CACHE_MAX
    /\ kx.cache[1].key = cacheKeyOf(ToString(3), TRUE)
    /\ kx.cache[CACHE_MAX].key = cacheKeyOf(ToString(1), TRUE)
    /\ cacheIndex(kx.cache, cacheKeyOf("a", TRUE)) = CACHE_MAX - 1

(***************************************************************************)
(* Properties of renderKaTeXWithBackpressure.                              *)
(***************************************************************************)
\* how many of the submits of the call were rejected with WORKER_BUSY
busyRejections ==
    Cardinality({n \in 1 .. Len(bp.rejections) : bp.rejections[n] = "WORKER_BUSY"})

\* C14: renderKaTeXWithBackpressure calls the submit operation at most
\* maxRetries + 1 times, submits again only after a WORKER_BUSY rejection, and
\* a rejection with any other code is the last submit and is what the call
\* rejects with.
C14_BoundedSubmits ==
    bp.pc # "idle" =>
        /\ bp.submits <= bp.maxRetries + 1
        /\ bp.submits <= busyRejections + 1
        /\ \A n \in 1 .. Len(bp.rejections) :
              bp.rejections[n] # "WORKER_BUSY"
                  => /\ n = Len(bp.rejections)
                     /\ bp.submits = n
                     /\ bp.pc = "done"
                     /\ bp.outcome.status = "rejected"
                     /\ bp.outcome.value.code = bp.rejections[n]

\* the call was submitted twice: once rejected WORKER_BUSY, then, after the
\* wait, rejected with the time-out of the request, which it passes on
C14_Witness ==
    /\ bp.pc = "done"
    /\ bp.maxRetries = 1
    /\ bp.submits = 2
    /\ bp.rejections = <<"WORKER_BUSY", "WORKER_TIMEOUT">>
    /\ bp.outcome.status = "rejected"
    /\ bp.outcome.value.code = "WORKER_TIMEOUT"

\* C15: once the signal passed to renderKaTeXWithBackpressure has fired, be it
\* before the call, while a submit is in flight, during the wait for a slot
\* or during the backoff, the call submits nothing more, and when its promise
\* settles it is rejected with AbortError.
C15_AbortStopsCall ==
    [][/\ bp'.aborted => bp'.submits = bp.submits
       /\ (bp'.aborted /\ bp'.pc = "done")
             => /\ bp'.outcome.status = "rejected"
                /\ bp'.outcome.value.code = "AbortError"
       /\ (bp'.aborted /\ ~bp.aborted /\ bp.pc \in {"submit", "wait"}) => bp'.pc = "done"
       /\ (bp.aborted /\ bp.pc = "backoff" /\ bp'.pc # "backoff") => bp'.pc = "done"]_vars

\* the signal fired after the first submit was rejected WORKER_BUSY, during the
\* wait or the backoff: the call ended with AbortError after one submit
C15_Witness ==
    /\ bp.pc = "done"
    /\ bp.aborted
    /\ bp.maxRetries = 1
    /\ bp.submits = 1
    /\ bp.rejections = <<"WORKER_BUSY">>
    /\ bp.outcome.value.code = "AbortError"

(***************************************************************************)
(* Properties of the diagram block.                                        *)
(***************************************************************************)

\* C5: when a render of an attempt completes and the attempt's token is not
\* the current renderToken, nothing of it is written: the displayed content,
\* the SVG cache and lastRenderedCode stay as they are (for attempts started
\* by the render effect and for attempts started by a switch to preview).
C5_StaleResultDiscarded ==
    [][\A a \in Tokens :
         (/\ a # block.renderToken
          /\ \E svg \in BOOLEAN : RenderFullDone(a, svg) \/ RenderPartialDone(a, svg))
            => /\ block'.content = block.content
               /\ block'.svgCache = block.svgCache
               /\ block'.lastRenderedCode = block.lastRenderedCode]_vars

\* C22: when the validation of the full source succeeded and the full render
\* that followed fails or times out, the attempt goes on to the partial
\* render of the safe prefix (it looks for the prefix, or renders it).
C22_FullFailureGoesPartial ==
    [][\A a \in Tokens :
         (/\ RenderFullDone(a, FALSE)
          /\ a = block.renderToken
          /\ ~block.attempts[a].aborted)
            => block'.attempts[a].pc \in {"findPrefix", "renderPartial"}]_vars

\* C23: cancelling a render attempt sets no error message for display,
\* whether the node is streaming or not: the message of the AbortError is
\* never the error displayed.
C23_CancelSetsNoError == block.error # "Aborted"

\* C32: a partial render that succeeds leaves lastRenderedCodeRef,
\* hasRenderedOnce and the svg cache as they were, so the test that lets
\* progressiveRender return early gives what it gave before.
C32_PartialMarksNothing ==
    [][\A a \in Tokens :
         RenderPartialDone(a, TRUE)
             => /\ block'.lastRenderedCode = block.lastRenderedCode
                /\ block'.hasRenderedOnce = block.hasRenderedOnce
                /\ block'.svgCache = block.svgCache]_vars

\* C32 witness: the block shows the partial render of its code, no attempt
\* is left, and it does not count as rendered
C32_Witness ==
    /\ block.content = svgOfPrefix(block.code)
    /\ ~block.hasRenderedOnce
    /\ \A a \in Tokens : block.attempts[a].pc = "none"

\* C33: when the code without its whitespace equals lastRenderedCodeRef and
\* a full render has completed, progressiveRender changes nothing: no
\* attempt is started (so no worker call is made), renderTokenRef and the
\* content displayed are what they were.
C33_SameCodeIsNoOp ==
    \A code \in Codes, signal \in BOOLEAN :
        (normalized(code) = block.lastRenderedCode /\ block.hasRenderedOnce)
            => progressiveRender(block, code, signal) = block

\* C33 witness: the block shows the full render of "x", its code is now "x"
\* followed by a blank, and the render effect that ran for this code left
\* no attempt and took no second token
C33_Witness ==
    /\ block.code = <<"x", " ">>
    /\ block.hasRenderedOnce
    /\ block.lastRenderedCode = <<"x">>
    /\ block.content = svgOf(<<"x">>)
    /\ block.renderToken = 1
    /\ \A a \in Tokens : block.attempts[a].pc = "none"

(***************************************************************************)
(* Properties of the viewport registrar.                                   *)
(***************************************************************************)

\* the step is register returning the handle h
Registered(h) == ~vp.handles[h].used /\ vp'.handles[h].used

\* C24: when the environment is no browser, IntersectionObserver is not
\* defined or the feature is disabled, register returns a handle that is
\* visible and whose whenVisible is resolved, and the registry and the
\* observer get no target.
C24_FailOpenRegister ==
    [][\A h \in HandleIds :
         (Registered(h) /\ (~vp.isBrowser \/ ~vp.hasIO \/ ~vp.enabled))
            => /\ isVisible(vp', h)
               /\ vp'.handles[h].settled /\ vp'.handles[h].resolutions = 1
               /\ vp'.targets = vp.targets
               /\ vp'.observed = vp.observed]_vars

\* C24 witness: in a browser with IntersectionObserver, element 1 is
\* registered and observed, and element 2, registered while the feature was
\* disabled, has a visible handle and no entry in the registry
C24_Witness ==
    /\ vp.isBrowser /\ vp.hasIO
    /\ vp.targets[1] = 1 /\ 1 \in vp.observed /\ ~isVisible(vp, 1)
    /\ vp.handles[2].used /\ vp.handles[2].el = 2
    /\ isVisible(vp, 2) /\ vp.handles[2].settled
    /\ vp.targets[2] = 0 /\ 2 \notin vp.observed

\* C25: when the observer reports an observed element intersecting, the
\* handle the registry holds for it becomes visible, its whenVisible has been
\* resolved once, and the element leaves the observer and the registry; a
\* visible handle stays visible, no whenVisible is resolved twice, and a
\* handle destroyed before it was visible never becomes visible.
C25_VisibleOnceAndForAll ==
    [][/\ \A h \in HandleIds :
            /\ isVisible(vp, h) => isVisible(vp', h)
            /\ vp'.handles[h].resolutions <= 1
            /\ vp.handles[h].destroyed => ~isVisible(vp', h)
       /\ \A els \in SUBSET Elements :
            Intersect(els) =>
                \A el \in els :
                    /\ vp.targets[el] # 0
                    /\ isVisible(vp', vp.targets[el])
                    /\ vp'.handles[vp.targets[el]].resolutions = 1
                    /\ el \notin vp'.observed
                    /\ vp'.targets[el] = 0]_vars

\* C25 witness: the handle of element 1 was destroyed before a report and is
\* not visible; element 1 was registered again and reported, so that its
\* second handle is visible and element 1 is neither observed nor registered
C25_Witness ==
    /\ vp.handles[1].el = 1 /\ vp.handles[1].destroyed /\ ~isVisible(vp, 1)
    /\ vp.handles[2].el = 1 /\ vp.handles[2].current /\ ~vp.handles[2].always
    /\ vp.handles[2].resolutions = 1
    /\ vp.targets[1] = 0 /\ 1 \notin vp.observed

\* the elements the registry holds an entry for
RegistryTargets == {el \in Elements : vp.targets[el] # 0}

\* at most one observer is live, it observes the elements of the registry,
\* and the handle of an entry is neither visible nor destroyed
OneObserverOfTheRegistry ==
    /\ vp.live <= 1
    /\ vp.observed = RegistryTargets
    /\ \A el \in RegistryTargets :
          /\ vp.handles[vp.targets[el]].el = el
          /\ ~isVisible(vp, vp.targets[el])
          /\ ~vp.handles[vp.targets[el]].destroyed

\* the step made a new observer for the root r in place of the old one,
\* which it disconnected, and the new one observes every target the
\* registry held
Rebuilt(r) ==
    /\ vp'.made = vp.made + 1
    /\ vp'.live = 1
    /\ vp'.currentRoot = r
    /\ RegistryTargets \subseteq vp'.observed

\* C35 as stated: whenever register is called while getRoot() returns
\* another element than the one the observer was made for, the observer is
\* disconnected and a new one observes every target of the registry; at
\* most one observer is live and it observes the registry's targets.
C35_RootChangeRebuilds ==
    [][/\ OneObserverOfTheRegistry
       /\ \A h \in HandleIds :
            (Registered(h) /\ vp.observer /\ vp.root # vp.currentRoot)
                => Rebuilt(vp.root)]_vars

\* C35: the same for a register called while the feature is enabled; a
\* register called while it is disabled leaves the observer, its root and
\* what it observes as they are.
C35_RootChangeRebuildsWhenEnabled ==
    [][/\ OneObserverOfTheRegistry
       /\ \A h \in HandleIds :
            (Registered(h) /\ vp.observer /\ vp.root # vp.currentRoot)
                => IF vp.enabled THEN Rebuilt(vp.root)
                   ELSE /\ vp'.made = vp.made /\ vp'.live = vp.live
                        /\ vp'.currentRoot = vp.currentRoot
                        /\ vp'.observed = vp.observed]_vars

\* C35 witness: a second observer was made, for root 1, after the first one
\* had been made for no root, and it observes element 1, registered with the
\* first observer, and element 2, registered with the second
C35_Witness ==
    /\ vp.made = 2 /\ vp.live = 1
    /\ vp.currentRoot = 1
    /\ vp.targets[1] = 1 /\ vp.targets[2] = 2
    /\ vp.observed = {1, 2}

(***************************************************************************)
(* Properties of the diagram components sharing one client.                *)
(***************************************************************************)
\* the attempt of component n awaits a worker call that is in the in-flight map
InFlightCallOf(n) == block[n].call # 0 /\ block[n].call \in mm.rpcMap

\* C29: when the cancellation token of a render attempt fires while the
\* attempt awaits canParseOffthread or findPrefixOffthread, the step that
\* fires it removes that call from the in-flight map of the diagram client.
C29_CancelFreesInFlightCall ==
    [][\A n \in Components :
         (InFlightCallOf(n) /\ ~block[n].aborted /\ block'[n].aborted)
             => block[n].call \notin mm'.rpcMap]_vars

\* C30: when a component is unmounted while another one is mounted, the
\* worker bound to the diagram client and the in-flight calls of the other
\* one are what they were.
C30_UnmountLeavesOthersAlone ==
    [][\A n, o \in Components :
         (/\ n # o
          /\ block[n].mounted /\ ~block'[n].mounted
          /\ block[o].mounted)
             => /\ mm'.worker = mm.worker
                /\ InFlightCallOf(o) => block[o].call \in mm'.rpcMap]_vars

(***************************************************************************)
(* Properties of the partial render.                                       *)
(***************************************************************************)
\* the text is not empty and its last line is neither blank nor dangling
EndsSafely(text) ==
    /\ text # <<>>
    /\ ~blankLine(text[Len(text)])
    /\ ~looksDangling(text[Len(text)])

\* C34: the text the partial render hands to the renderer is the longest
\* prefix, in whole lines, of the candidate it was given whose last line is
\* neither blank nor dangling; no text that ends in a dangling line is
\* rendered.
C34_RenderedTextNotDangling ==
    block.pc = "rendered" =>
        /\ EndsSafely(block.text)
        /\ \E n \in 1 .. Len(block.prefix) :
              /\ block.text = SubSeq(block.prefix, 1, n)
              /\ \A k \in (n + 1) .. Len(block.prefix) :
                    ~EndsSafely(SubSeq(block.prefix, 1, k))

==============================================================================
